---- MODULE Spec2Model ----
(***************************************************************************)
(* Model of src/git.c: the loose object store (write_git_object,           *)
(* read_loose_object, create_blob), the pack encoder (create_packfile)     *)
(* and the pack decoder (unpack_packfile).                                 *)
(*                                                                         *)
(* Bytes are the integers 0..255, text is a sequence of ASCII codes, and   *)
(* offsets into a buffer are 0-based as in the C code (buffer[p] is        *)
(* buf[p + 1] here).                                                       *)
(***************************************************************************)
EXTENDS Integers, Sequences, FiniteSets, TLC

\* ------------------------------------------------------------------------
\* Bounds of the model
\* ------------------------------------------------------------------------
\* number of calls of create_blob, of create_packfile and of unpack_packfile
\* in one run, and the number of calls in all
MaxBlobs == 2
MaxPackfiles == 1
MaxUnpacks == 1
MaxOps == 4

\* ------------------------------------------------------------------------
\* Text constants of the source
\* ------------------------------------------------------------------------
PACK == <<80, 65, 67, 75>>
STR_commit == <<99, 111, 109, 109, 105, 116>>
STR_tree == <<116, 114, 101, 101>>
STR_blob == <<98, 108, 111, 98>>
STR_tag == <<116, 97, 103>>
SP == 32
NUL == 0

Min(a, b) == IF a < b THEN a ELSE b
Minimum(S) == CHOOSE k \in S : \A j \in S : k <= j
Maximum(S) == CHOOSE k \in S : \A j \in S : k >= j

RECURSIVE Pow2(_)
Pow2(n) == IF n = 0 THEN 1 ELSE 2 * Pow2(n - 1)

\* C string functions on byte sequences ----------------------------------
\* index (1-based) of the first occurrence of byte b in s, 0 when absent
FirstFrom(s, b, i) ==
    LET hits == {k \in i..Len(s) : s[k] = b}
    IN  IF hits = {} THEN 0 ELSE Minimum(hits)

memchr(s, b) == FirstFrom(s, b, 1)

\* the C string held in a buffer: the bytes before the first NUL
CStr(s) == IF memchr(s, NUL) = 0 THEN s ELSE SubSeq(s, 1, memchr(s, NUL) - 1)

\* printf("%zu") / printf("%d") of a non-negative number
RECURSIVE Decimal(_)
Decimal(n) == IF n < 10 THEN <<48 + n>> ELSE Decimal(n \div 10) \o <<48 + (n % 10)>>

\* ------------------------------------------------------------------------
\* SHA1 (openssl): a 20-byte digest of a byte sequence.  The primitive is
\* external; the model is a deterministic 20-byte mixing function.
\* ------------------------------------------------------------------------
SHA_DIGEST_LENGTH == 20

\* sum of f[lo..hi], by halving
RECURSIVE Sum(_, _, _)
Sum(f, lo, hi) ==
    IF lo > hi THEN 0
    ELSE IF lo = hi THEN f[lo]
    ELSE Sum(f, lo, (lo + hi) \div 2) + Sum(f, (lo + hi) \div 2 + 1, hi)

SHA1(x) ==
    LET h1 == (Len(x) + Sum([k \in 1..Len(x) |->
                  ((x[k] + 1) * ((k * 7919 + 13) % 65521)) % 65521], 1, Len(x))) % 65521
        h2 == (5381 + Sum([k \in 1..Len(x) |->
                  ((x[k] + 3) * ((k * k * 31 + k * 101 + 7) % 65521)) % 65521], 1, Len(x))) % 65521
    IN  [k \in 1..SHA_DIGEST_LENGTH |->
            IF k = 1 THEN h1 % 256
            ELSE IF k = 2 THEN h1 \div 256
            ELSE IF k = 3 THEN h2 % 256
            ELSE IF k = 4 THEN h2 \div 256
            ELSE ((h1 + k) * 7 + h2 * k) % 256]

\* sha1_to_hex: two lower-case hex digits per byte ("%02x")
HexChar(n) == IF n < 10 THEN 48 + n ELSE 87 + n

sha1_to_hex(sha1) ==
    [k \in 1..(2 * SHA_DIGEST_LENGTH) |->
        IF k % 2 = 1 THEN HexChar(sha1[(k + 1) \div 2] \div 16)
        ELSE HexChar(sha1[k \div 2] % 16)]

\* ------------------------------------------------------------------------
\* zlib: deflate() output is a zlib stream holding one stored block; inflate
\* checks the two header bytes as zlib does (CM = 8, window <= 32K, no
\* dictionary, header a multiple of 31), the block's LEN/NLEN pair and the
\* trailing Adler-32, and stops at the end of the stream.
\* ------------------------------------------------------------------------
AdlerA(d) == (1 + Sum(d, 1, Len(d))) % 65521

AdlerB(d) == (Len(d) + Sum([k \in 1..Len(d) |-> (Len(d) - k + 1) * d[k]], 1, Len(d))) % 65521

Adler32(d) ==
    LET a == AdlerA(d)
        b == AdlerB(d)
    IN  <<b \div 256, b % 256, a \div 256, a % 256>>

\* the whole stream deflate(Z_FINISH) would produce with unlimited output
ZStream(d) ==
    <<120, 1, 1, Len(d) % 256, Len(d) \div 256,
      255 - (Len(d) % 256), 255 - (Len(d) \div 256)>> \o d \o Adler32(d)

\* deflateInit / deflate(Z_FINISH) / deflateEnd with avail_out bytes of
\* output space: total_out bytes of the stream
deflate(d, avail_out) == SubSeq(ZStream(d), 1, Min(Len(ZStream(d)), avail_out))

Z_STREAM_END == "Z_STREAM_END"
Z_DATA_ERROR == "Z_DATA_ERROR"
Z_BUF_ERROR == "Z_BUF_ERROR"

\* inflateInit / inflate(Z_FINISH) / inflateEnd over the input s with
\* avail_out bytes of output space
inflate(s, avail_out) ==
    LET n == IF Len(s) >= 5 THEN s[4] + 256 * s[5] ELSE 0
    IN  IF Len(s) < 2 THEN [ret |-> Z_BUF_ERROR, out |-> <<>>, total_in |-> Len(s)]
        ELSE IF \/ s[1] % 16 # 8
                \/ s[1] \div 16 > 7
                \/ (s[1] * 256 + s[2]) % 31 # 0
                \/ (s[2] \div 32) % 2 = 1
             THEN [ret |-> Z_DATA_ERROR, out |-> <<>>, total_in |-> 2]
        ELSE IF Len(s) < 3 THEN [ret |-> Z_BUF_ERROR, out |-> <<>>, total_in |-> Len(s)]
        ELSE IF s[3] # 1 THEN [ret |-> Z_DATA_ERROR, out |-> <<>>, total_in |-> 3]
        ELSE IF Len(s) < 7 THEN [ret |-> Z_BUF_ERROR, out |-> <<>>, total_in |-> Len(s)]
        ELSE IF s[6] # 255 - s[4] \/ s[7] # 255 - s[5]
             THEN [ret |-> Z_DATA_ERROR, out |-> <<>>, total_in |-> 7]
        ELSE IF n > avail_out
             THEN [ret |-> Z_BUF_ERROR, out |-> SubSeq(s, 8, 7 + avail_out),
                   total_in |-> 7 + avail_out]
        ELSE IF Len(s) < 7 + n + 4
             THEN [ret |-> Z_BUF_ERROR, out |-> SubSeq(s, 8, Min(Len(s), 7 + n)),
                   total_in |-> Len(s)]
        ELSE IF SubSeq(s, 8 + n, 11 + n) # Adler32(SubSeq(s, 8, 7 + n))
             THEN [ret |-> Z_DATA_ERROR, out |-> SubSeq(s, 8, 7 + n),
                   total_in |-> 11 + n]
        ELSE [ret |-> Z_STREAM_END, out |-> SubSeq(s, 8, 7 + n), total_in |-> 11 + n]

\* ------------------------------------------------------------------------
\* State
\* ------------------------------------------------------------------------
\* the working directories the program is run in, each with its own .git:
\* files are added and packed in the first, packs are unpacked in both
Repos == {"a", "b"}
Origin == "a"

VARIABLES
    objects,    \* objects[r]: the files of r/.git/objects, <<dir, name>> -> bytes
    pc,         \* "idle", "unpack" while unpack_packfile is in its loop, or
                \* the place git_push / git_pull has reached: "push_refs",
                \* "push_packed", "push_end", "pull_want", "pull_end"
    cwd,        \* the directory of the running (or last) operation
    pack,       \* unpack_packfile: the bytes read from the file
    heap,       \* unpack_packfile: the bytes that follow the malloc'ed buffer,
                \* <<>> as long as the program has not read any of them
    count,      \* unpack_packfile: declared number of entries
    version,    \* unpack_packfile: declared version
    i,          \* unpack_packfile: loop counter
    p,          \* unpack_packfile: read position
    objs,       \* unpack_packfile: list of unpacked_obj
    ret,        \* return value of the last unpack_packfile, -1 before any
    pack_data,  \* create_packfile: the buffer handed to the caller
    pack_len,   \* create_packfile: its return value, -1 before any call
    lastOp,     \* the last operation started and its input
    ops,        \* number of calls of each operation so far
    store0,     \* objects[cwd] when the last unpack_packfile started
    packed,     \* the files create_packfile read to fill pack_data
    putLog,     \* the objects written through create_blob
    refs,       \* refs[r]: the files HEAD and refs/heads/* of r/.git
    resp,       \* git_push, git_pull: the buffer of the GET response
    want,       \* git_pull: want_sha1
    sent,       \* the requests written to the connection by the running
                \* (or last) git_push or git_pull, in order
    exit,       \* what main returned for the last command, -1 before any
    hdr,        \* one entry header: the type and size it is written for, the
                \* bytes written, what the decoder's parse made of them
    scan        \* create_packfile's two readdir loops: the directories, the
                \* place reached, sha1cnt

\* the state of the commands that talk to the remote
netvars == <<refs, resp, want, sent, exit>>

\* the state of the functions run on their own
unitvars == <<hdr, scan>>

vars == <<objects, pc, cwd, pack, heap, count, version, i, p, objs, ret,
          pack_data, pack_len, lastOp, ops, store0, packed, putLog,
          refs, resp, want, sent, exit, hdr, scan>>

\* the number of operations run so far
OpsDone ==
    ops.create_blob + ops.create_packfile + ops.unpack_packfile
    + ops.commit_tree + ops.push + ops.pull

NoFiles == [x \in {} |-> <<>>]

\* ------------------------------------------------------------------------
\* Object store
\* ------------------------------------------------------------------------
\* .git/objects/%.2s/%.38s of the hex id
ObjectPath(hex) == <<SubSeq(hex, 1, 2), SubSeq(hex, 3, 40)>>

\* variant of fwrite_wb: the file opened with "ab", the bytes are appended
fwrite_ab(files, path, bytes) ==
    [x \in DOMAIN files \cup {path} |->
        IF x = path THEN (IF path \in DOMAIN files THEN files[path] ELSE <<>>) \o bytes
        ELSE files[x]]

\* fopen(file, "wb"), fwrite, fclose: the file is created or truncated and
\* holds exactly the bytes written
fwrite_wb(files, path, bytes) ==
    [x \in DOMAIN files \cup {path} |-> IF x = path THEN bytes ELSE files[x]]

\* write_git_object(object, object_len, sha1): the bytes of object go to the
\* file named by sha1 as they are
write_git_object(files, object, sha1) ==
    fwrite_wb(files, ObjectPath(sha1_to_hex(sha1)), object)

\* "<kind> <length>NUL<content>"
Canonical(kind, content) == kind \o <<SP>> \o Decimal(Len(content)) \o <<NUL>> \o content

\* the object create_blob builds from a file's bytes
BlobObject(filebuf) == STR_blob \o <<SP>> \o Decimal(Len(filebuf)) \o <<NUL>> \o filebuf

INFLATE_BUF == 65536

\* read_loose_object(objpath, out_type, out_data, out_size)
read_loose_object(files, path) ==
    IF path \notin DOMAIN files THEN [ok |-> FALSE, type |-> <<>>, data |-> <<>>]
    ELSE
    LET z == inflate(files[path], INFLATE_BUF)
        data == z.out
        sp == memchr(data, SP)
        zp == memchr(data, NUL)
    IN  IF z.ret # Z_STREAM_END THEN [ok |-> FALSE, type |-> <<>>, data |-> <<>>]
        ELSE IF sp = 0 \/ zp = 0 THEN [ok |-> FALSE, type |-> <<>>, data |-> <<>>]
        ELSE [ok |-> TRUE,
              type |-> CStr(SubSeq(data, 1, sp - 1)),
              data |-> SubSeq(data, zp + 1, Len(data))]

\* the files a working directory may hold (inputs of create_blob)
FileContents == {<<104>>, <<104, 105, 10>>}

NoId == <<>>

\* create_blob(filepath, sha1) in directory r
create_blob(r, filebuf) ==
    /\ pc = "idle"
    /\ OpsDone < MaxOps
    /\ ops.create_blob < MaxBlobs
    /\ LET object == BlobObject(filebuf)
           sha1 == SHA1(object)
       IN  /\ objects' = [objects EXCEPT ![r] = write_git_object(@, object, sha1)]
           /\ lastOp' = [op |-> "create_blob", arg |-> filebuf, id |-> sha1]
           /\ putLog' = putLog \cup
                  {[repo |-> r, kind |-> STR_blob, content |-> filebuf, id |-> sha1]}
    /\ cwd' = r
    /\ ops' = [ops EXCEPT !.create_blob = @ + 1]
    /\ UNCHANGED <<pc, pack, heap, count, version, i, p, objs, ret,
                   pack_data, pack_len, store0, packed>>
    /\ UNCHANGED netvars
    /\ UNCHANGED unitvars

\* ------------------------------------------------------------------------
\* Pack encoder
\* ------------------------------------------------------------------------
\* write_pack_obj_hdr(buf, type, size): the bytes written. c is an unsigned
\* char, so (type << 4) | (size & 0x0F) is kept modulo 256.
RECURSIVE SizeVarint(_)
SizeVarint(size) ==
    IF size = 0 THEN <<>>
    ELSE <<(size % 128) + (IF size \div 128 # 0 THEN 128 ELSE 0)>>
         \o SizeVarint(size \div 128)

write_pack_obj_hdr(type, size) ==
    LET c == ((type * 16) % 256) + (size % 16)   \* bit 7 clear for type <= 7
    IN  <<c + (IF size \div 16 # 0 /\ c < 128 THEN 128 ELSE 0)>>
        \o SizeVarint(size \div 16)

git_obj_type(objtype) ==
    IF objtype = STR_commit THEN 1
    ELSE IF objtype = STR_tree THEN 2
    ELSE IF objtype = STR_blob THEN 3
    ELSE IF objtype = STR_tag THEN 4
    ELSE 0

SHA1S_CAP == 1024
ZBUF == 65536

\* step 1 of create_packfile: the ids collected by the two nested readdir
\* loops, for the order q in which readdir returns the files (directory by
\* directory); skip is the directory whose inner loop was left by the break
RECURSIVE CollectSha1s(_, _, _, _)
CollectSha1s(q, k, sha1s, skip) ==
    IF k > Len(q) THEN sha1s
    ELSE IF Len(q[k][1]) # 2 \/ Len(q[k][2]) # 38 \/ q[k][1] = skip
         THEN CollectSha1s(q, k + 1, sha1s, skip)
    ELSE LET next == Append(sha1s, q[k][1] \o q[k][2])
         IN  CollectSha1s(q, k + 1, next,
                          IF Len(next) > SHA1S_CAP - 1 THEN q[k][1] ELSE <<>>)

\* readdir orders: every file once, the files of one directory together
RECURSIVE Orders(_)
Orders(S) ==
    IF S = {} THEN {<<>>}
    ELSE UNION {{<<x>> \o q : q \in Orders(S \ {x})} : x \in S}

ReaddirOrders(files) ==
    {q \in Orders(DOMAIN files) :
        \A x, y, z \in DOMAIN q :
            (x < y /\ y < z /\ q[x][1] = q[z][1]) => q[y][1] = q[x][1]}

BE32(n) == <<(n \div 16777216) % 256, (n \div 65536) % 256, (n \div 256) % 256, n % 256>>

\* step 3 of create_packfile: the entries appended for sha1s[k..], and how
\* many objects were counted
RECURSIVE PackEntries(_, _, _)
PackEntries(files, sha1s, k) ==
    IF k > Len(sha1s) THEN [bytes |-> <<>>, obj_count |-> 0]
    ELSE LET rest == PackEntries(files, sha1s, k + 1)
             obj == read_loose_object(files, ObjectPath(sha1s[k]))
         IN  IF ~obj.ok THEN rest
             ELSE [bytes |-> write_pack_obj_hdr(git_obj_type(obj.type), Len(obj.data))
                             \o deflate(obj.data, ZBUF) \o rest.bytes,
                   obj_count |-> rest.obj_count + 1]

\* variant of PackBytes: the count field holds the number of ids collected
PackBytes_countCollected(files, q) ==
    LET sha1s == CollectSha1s(q, 1, <<>>, <<>>)
        body == PackEntries(files, sha1s, 1)
        contents == PACK \o <<0, 0, 0, 2>> \o BE32(Len(sha1s)) \o body.bytes
    IN  contents \o SHA1(contents)

\* the buffer create_packfile returns for the readdir order q
PackBytes(files, q) ==
    LET sha1s == CollectSha1s(q, 1, <<>>, <<>>)
        body == PackEntries(files, sha1s, 1)
        contents == PACK \o <<0, 0, 0, 2>> \o BE32(body.obj_count) \o body.bytes
    IN  contents \o SHA1(contents)

\* some enumeration of a set
RECURSIVE SeqOf(_)
SeqOf(S) ==
    IF S = {} THEN <<>>
    ELSE LET x == CHOOSE y \in S : TRUE IN <<x>> \o SeqOf(S \ {x})

\* the files read_loose_object accepts
Readable(files) == {path \in DOMAIN files : read_loose_object(files, path).ok}

\* the readdir orders up to the places of the files read_loose_object
\* rejects: those are skipped (line 367) and leave no trace in the pack, so
\* they are listed after the others
PackOrders(files) ==
    {q \o SeqOf(DOMAIN files \ Readable(files)) :
        q \in ReaddirOrders([x \in Readable(files) |-> files[x]])}

\* create_packfile(&pack_data) in directory r
create_packfile(r) ==
    /\ pc = "idle"
    /\ OpsDone < MaxOps
    /\ ops.create_packfile < MaxPackfiles
    /\ IF DOMAIN objects[r] = {}
       THEN \* opendir(".git/objects") fails: return 0, *pack_data_out not set
            /\ pack_len' = 0
            /\ UNCHANGED <<pack_data, packed>>
       ELSE \E bytes \in {PackBytes(objects[r], q) : q \in PackOrders(objects[r])} :
            /\ pack_data' = bytes
            /\ pack_len' = Len(bytes)
            /\ packed' = objects[r]
    /\ lastOp' = [op |-> "create_packfile", arg |-> <<>>, id |-> NoId]
    /\ cwd' = r
    /\ ops' = [ops EXCEPT !.create_packfile = @ + 1]
    /\ UNCHANGED <<objects, pc, pack, heap, count, version, i, p, objs, ret,
                   store0, putLog>>
    /\ UNCHANGED netvars
    /\ UNCHANGED unitvars

\* ------------------------------------------------------------------------
\* Delta application and the list of unpacked objects.  git.c uses
\* get_varint, unpacked_obj, find_obj_by_offset, find_obj_by_sha1 and
\* apply_delta without defining them (lines 409-426); they are modelled
\* from sections 3, 4.3 and 4.4 of the specification.
\* ------------------------------------------------------------------------
Bit(x, k) == (x \div Pow2(k)) % 2

\* A size_t that may not fit the integers of the model is the set of the
\* bits that are 1 in it, bit 0 the lowest.
SIZE_T_BITS == 64
INT_BITS == 32

BitsOf(n) == {k \in 0..(INT_BITS - 2) : Bit(n, k) = 1}
LowValue(S, n) == Sum([k \in 1..n |-> IF (k - 1) \in S THEN Pow2(k - 1) ELSE 0], 1, n)
ShiftRight(S, n) == {b - n : b \in {x \in S : x >= n}}
ShiftLeft(S, n, width) == {b + n : b \in S} \cap 0..(width - 1)

\* off + 1 in width bits
Increment(S, width) ==
    LET z == Minimum((0..width) \ S)
    IN  IF z >= width THEN {} ELSE {b \in S : b > z} \cup {z}

\* get_varint: little-endian base-128 integer starting at d[pos] (0-based);
\* ok is FALSE when the delta ends inside it
RECURSIVE get_varint(_, _, _, _)
get_varint(d, pos, shift, acc) ==
    IF pos >= Len(d) THEN [ok |-> FALSE, val |-> acc, pos |-> pos]
    ELSE IF d[pos + 1] >= 128
         THEN get_varint(d, pos + 1, shift + 7, acc + (d[pos + 1] % 128) * Pow2(shift))
    ELSE [ok |-> TRUE, val |-> acc + d[pos + 1] * Pow2(shift), pos |-> pos + 1]

\* the little-endian bytes of a copy opcode selected by bits bit0.. of cmd
RECURSIVE ReadSelected(_, _, _, _, _, _, _)
ReadSelected(d, pos, cmd, bit0, k, n, acc) ==
    IF k = n THEN [ok |-> TRUE, val |-> acc, pos |-> pos]
    ELSE IF Bit(cmd, bit0 + k) = 0 THEN ReadSelected(d, pos, cmd, bit0, k + 1, n, acc)
    ELSE IF pos >= Len(d) THEN [ok |-> FALSE, val |-> acc, pos |-> pos]
    ELSE ReadSelected(d, pos + 1, cmd, bit0, k + 1, n, acc + d[pos + 1] * Pow2(8 * k))

COPY_DEFAULT_SIZE == 65536

\* variant of DeltaOpcodes: a copy that runs past the end of the base takes
\* the bytes there are
RECURSIVE DeltaOpcodes_clampCopy(_, _, _, _)
DeltaOpcodes_clampCopy(base, d, pos, out) ==
    IF pos >= Len(d) THEN [ok |-> TRUE, data |-> out]
    ELSE
    LET cmd == d[pos + 1]
    IN  IF cmd >= 128
        THEN LET off == ReadSelected(d, pos + 1, cmd, 0, 0, 4, 0)
                 sz == ReadSelected(d, off.pos, cmd, 4, 0, 3, 0)
                 size == IF sz.val = 0 THEN COPY_DEFAULT_SIZE ELSE sz.val
             IN  IF ~off.ok \/ ~sz.ok
                 THEN [ok |-> FALSE, data |-> <<>>]
                 ELSE DeltaOpcodes_clampCopy(base, d, sz.pos,
                          out \o SubSeq(base, off.val + 1, Min(off.val + size, Len(base))))
        ELSE IF cmd # 0
        THEN IF pos + 1 + cmd > Len(d) THEN [ok |-> FALSE, data |-> <<>>]
             ELSE DeltaOpcodes_clampCopy(base, d, pos + 1 + cmd,
                                         out \o SubSeq(d, pos + 2, pos + 1 + cmd))
        ELSE [ok |-> FALSE, data |-> <<>>]

\* the opcode loop of apply_delta
RECURSIVE DeltaOpcodes(_, _, _, _)
DeltaOpcodes(base, d, pos, out) ==
    IF pos >= Len(d) THEN [ok |-> TRUE, data |-> out]
    ELSE
    LET cmd == d[pos + 1]
    IN  IF cmd >= 128
        THEN LET off == ReadSelected(d, pos + 1, cmd, 0, 0, 4, 0)
                 sz == ReadSelected(d, off.pos, cmd, 4, 0, 3, 0)
                 size == IF sz.val = 0 THEN COPY_DEFAULT_SIZE ELSE sz.val
             IN  IF ~off.ok \/ ~sz.ok \/ off.val + size > Len(base)
                 THEN [ok |-> FALSE, data |-> <<>>]
                 ELSE DeltaOpcodes(base, d, sz.pos,
                                   out \o SubSeq(base, off.val + 1, off.val + size))
        ELSE IF cmd # 0
        THEN IF pos + 1 + cmd > Len(d) THEN [ok |-> FALSE, data |-> <<>>]
             ELSE DeltaOpcodes(base, d, pos + 1 + cmd,
                               out \o SubSeq(d, pos + 2, pos + 1 + cmd))
        ELSE [ok |-> FALSE, data |-> <<>>]

\* apply_delta(base, base_size, delta, delta_size, &out_size); ok is FALSE
\* where the function returns NULL
apply_delta(base, delta) ==
    LET bs == get_varint(delta, 0, 0, 0)
        ts == get_varint(delta, bs.pos, 0, 0)
        r == DeltaOpcodes(base, delta, ts.pos, <<>>)
    IN  IF ~bs.ok \/ ~ts.ok THEN [ok |-> FALSE, data |-> <<>>]
        ELSE IF bs.val # Len(base) THEN [ok |-> FALSE, data |-> <<>>]
        ELSE IF ~r.ok THEN [ok |-> FALSE, data |-> <<>>]
        ELSE IF Len(r.data) # ts.val THEN [ok |-> FALSE, data |-> <<>>]
        ELSE r

\* unpacked_obj: one element of the list the decoder keeps
unpacked_obj(type, sha1, data, pack_offset) ==
    [type |-> type, sha1 |-> sha1, data |-> data, size |-> Len(data),
     pack_offset |-> pack_offset]

\* find_obj_by_offset / find_obj_by_sha1: index of the first element of the
\* list with that pack offset / that sha1, 0 for NULL
RECURSIVE find_obj_by_offset(_, _, _)
find_obj_by_offset(list, k, off) ==
    IF k > Len(list) THEN 0
    ELSE IF list[k].pack_offset = off THEN k
    ELSE find_obj_by_offset(list, k + 1, off)

RECURSIVE find_obj_by_sha1(_, _, _)
find_obj_by_sha1(list, k, sha1) ==
    IF k > Len(list) THEN 0
    ELSE IF list[k].sha1 = sha1 THEN k
    ELSE find_obj_by_sha1(list, k + 1, sha1)

\* ------------------------------------------------------------------------
\* Pack decoder
\* ------------------------------------------------------------------------
\* pack[q] as the program reads it: a byte of the file, or for q at or past
\* packlen a byte of whatever follows the malloc'ed buffer
ReadByte(mem, q) == IF q < Len(mem) THEN mem[q + 1] ELSE 0

\* the while (c & 0x80) loop of the type/size header, entered after the
\* first byte c was read.  Exact while the shifted group stays below bit 31
\* of the int it is computed in, which every modelled pack does;
\* HeaderSizeWide below gives the sizes beyond that.
RECURSIVE HeaderSize(_, _, _, _, _)
HeaderSize(mem, q, c, size, shift) ==
    IF c < 128 THEN [size |-> size, p |-> q]
    ELSE LET c2 == ReadByte(mem, q)
         IN  HeaderSize(mem, q + 1, c2, size + (c2 % 128) * Pow2(shift), shift + 7)

\* the while (c & 0x80) loop of the OFS_DELTA offset; off is a size_t, of
\* width bits: off += 1, then off = (off << 7) + (c & 0x7f)
RECURSIVE OfsValue(_, _, _, _, _)
OfsValue(mem, q, c, off, width) ==
    IF c < 128 THEN [off |-> off, p |-> q]
    ELSE LET c2 == ReadByte(mem, q)
         IN  OfsValue(mem, q + 1, c2,
                      ShiftLeft(Increment(off, width), 7, width) \cup BitsOf(c2 % 128),
                      width)

\* obj_offset - off in size_t.  A result below zero stands for a value near
\* 2^64, above every offset of a file, as does -1 for an off of 2^31 or more.
BaseOffset(obj_offset, off) ==
    IF off \subseteq 0..(INT_BITS - 2) THEN obj_offset - LowValue(off, INT_BITS - 1)
    ELSE 0 - 1

\* typename of a type field; <<>> for NULL
TypeName(type) ==
    IF type = 1 THEN STR_commit
    ELSE IF type = 2 THEN STR_tree
    ELSE IF type = 3 THEN STR_blob
    ELSE IF type = 4 THEN STR_tag
    ELSE <<>>

INFLATE_SLACK == 65536

\* lines 451-498: the type/size header of the entry at offset p0 and, for a
\* delta, its base reference; pz is the position of the compressed payload.
ParseEntryHeader(mem, p0) ==
    LET c == ReadByte(mem, p0)
        type == (c \div 16) % 8
        hs == HeaderSize(mem, p0 + 1, c, c % 16, 4)
        is_delta == IF type = 6 THEN 1 ELSE IF type = 7 THEN 2 ELSE 0
        ofs == OfsValue(mem, hs.p + 1, ReadByte(mem, hs.p),
                        BitsOf(ReadByte(mem, hs.p) % 128), SIZE_T_BITS)
    IN  [type |-> type,
         size |-> hs.size,
         is_delta |-> is_delta,
         base_offset |-> IF is_delta = 1 THEN BaseOffset(p0, ofs.off) ELSE 0,
         base_sha1 |-> IF is_delta = 2
                       THEN [k \in 1..SHA_DIGEST_LENGTH |-> ReadByte(mem, hs.p + k - 1)]
                       ELSE <<>>,
         pz |-> IF type \notin {1, 2, 3, 4, 6, 7} THEN hs.p
                ELSE IF is_delta = 1 THEN ofs.p
                ELSE IF is_delta = 2 THEN hs.p + SHA_DIGEST_LENGTH
                ELSE hs.p]

\* lines 500-511: inflate the payload at pz; the input is what is left of the
\* file (avail_in = packlen - p)
InflateEntry(mem, packlen, h) ==
    inflate(SubSeq(mem, h.pz + 1, IF h.pz <= packlen THEN packlen ELSE Len(mem)),
            h.size + INFLATE_SLACK)

\* variant of DecodeEntry: a resolved delta is given the name of its own
\* type field (none) instead of its base's type
DecodeEntry_ownType(mem, packlen, list, p0) ==
    LET h == ParseEntryHeader(mem, p0)
        zs == InflateEntry(mem, packlen, h)
        base == IF h.is_delta = 1 THEN find_obj_by_offset(list, 1, h.base_offset)
                ELSE IF h.is_delta = 2 THEN find_obj_by_sha1(list, 1, h.base_sha1)
                ELSE 0
        applied == IF base # 0 THEN apply_delta(list[base].data, zs.out)
                   ELSE [ok |-> FALSE, data |-> <<>>]
        failed(e) == [err |-> e, type |-> <<>>, data |-> <<>>, next |-> h.pz]
    IN  IF h.type \notin {1, 2, 3, 4, 6, 7} THEN failed(3)
        ELSE IF zs.ret # Z_STREAM_END THEN failed(4)
        ELSE IF h.is_delta = 0
             THEN [err |-> 0, type |-> TypeName(h.type), data |-> zs.out,
                   next |-> h.pz + zs.total_in]
        ELSE IF base = 0 THEN failed(5)
        ELSE IF ~applied.ok THEN failed(6)
        ELSE [err |-> 0, type |-> TypeName(h.type), data |-> applied.data,
              next |-> h.pz + zs.total_in]

\* variant of DecodeEntry: the result of apply_delta is used without the
\* test for NULL, a failed delta giving an empty object
DecodeEntry_noNullCheck(mem, packlen, list, p0) ==
    LET h == ParseEntryHeader(mem, p0)
        zs == InflateEntry(mem, packlen, h)
        base == IF h.is_delta = 1 THEN find_obj_by_offset(list, 1, h.base_offset)
                ELSE IF h.is_delta = 2 THEN find_obj_by_sha1(list, 1, h.base_sha1)
                ELSE 0
        applied == IF base # 0 THEN apply_delta(list[base].data, zs.out)
                   ELSE [ok |-> FALSE, data |-> <<>>]
        failed(e) == [err |-> e, type |-> <<>>, data |-> <<>>, next |-> h.pz]
    IN  IF h.type \notin {1, 2, 3, 4, 6, 7} THEN failed(3)
        ELSE IF zs.ret # Z_STREAM_END THEN failed(4)
        ELSE IF h.is_delta = 0
             THEN [err |-> 0, type |-> TypeName(h.type), data |-> zs.out,
                   next |-> h.pz + zs.total_in]
        ELSE IF base = 0 THEN failed(5)
        ELSE [err |-> 0, type |-> list[base].type, data |-> applied.data,
              next |-> h.pz + zs.total_in]

\* variant of DecodeEntry: a delta whose base is not found is kept as it was
\* inflated instead of ending the call
DecodeEntry_noBaseCheck(mem, packlen, list, p0) ==
    LET h == ParseEntryHeader(mem, p0)
        zs == InflateEntry(mem, packlen, h)
        base == IF h.is_delta = 1 THEN find_obj_by_offset(list, 1, h.base_offset)
                ELSE IF h.is_delta = 2 THEN find_obj_by_sha1(list, 1, h.base_sha1)
                ELSE 0
        applied == IF base # 0 THEN apply_delta(list[base].data, zs.out)
                   ELSE [ok |-> FALSE, data |-> <<>>]
        failed(e) == [err |-> e, type |-> <<>>, data |-> <<>>, next |-> h.pz]
    IN  IF h.type \notin {1, 2, 3, 4, 6, 7} THEN failed(3)
        ELSE IF zs.ret # Z_STREAM_END THEN failed(4)
        ELSE IF h.is_delta = 0 \/ base = 0
             THEN [err |-> 0, type |-> TypeName(h.type), data |-> zs.out,
                   next |-> h.pz + zs.total_in]
        ELSE IF ~applied.ok THEN failed(6)
        ELSE [err |-> 0, type |-> list[base].type, data |-> applied.data,
              next |-> h.pz + zs.total_in]

\* One iteration of the for loop of unpack_packfile up to the point where
\* the object is written: the entry at offset p0 of mem (the file's packlen
\* bytes followed by the heap), resolved against the list.
\*   err = 0: data and type are final_data and out_type, next is p
\*   err = 3, 4, 5, 6: the value returned from inside the loop
DecodeEntry(mem, packlen, list, p0) ==
    LET h == ParseEntryHeader(mem, p0)
        zs == InflateEntry(mem, packlen, h)
        base == IF h.is_delta = 1 THEN find_obj_by_offset(list, 1, h.base_offset)
                ELSE IF h.is_delta = 2 THEN find_obj_by_sha1(list, 1, h.base_sha1)
                ELSE 0
        applied == IF base # 0 THEN apply_delta(list[base].data, zs.out)
                   ELSE [ok |-> FALSE, data |-> <<>>]
        failed(e) == [err |-> e, type |-> <<>>, data |-> <<>>, next |-> h.pz]
    IN  IF h.type \notin {1, 2, 3, 4, 6, 7} THEN failed(3)
        ELSE IF zs.ret # Z_STREAM_END THEN failed(4)
        ELSE IF h.is_delta = 0
             THEN [err |-> 0, type |-> TypeName(h.type), data |-> zs.out,
                   next |-> h.pz + zs.total_in]
        ELSE IF base = 0 THEN failed(5)
        ELSE IF ~applied.ok THEN failed(6)
        ELSE [err |-> 0, type |-> list[base].type, data |-> applied.data,
              next |-> h.pz + zs.total_in]

\* the values the uninitialised local "unsigned char sha1[20]" of the loop
\* body (line 546) may hold when it is passed to write_git_object
UninitSha1 == {[k \in 1..SHA_DIGEST_LENGTH |-> 0], [k \in 1..SHA_DIGEST_LENGTH |-> 204]}

\* number of bytes modelled after the end of the malloc'ed pack buffer
HeapLen == 24

\* what may follow the buffer in memory
Heaps == {[k \in 1..HeapLen |-> 0], [k \in 1..HeapLen |-> 51]}

\* ---- the files handed to unpack_packfile --------------------------------
WholeEntry(type, content) == write_pack_obj_hdr(type, Len(content)) \o ZStream(content)

RefDeltaEntry(base_sha1, delta) ==
    write_pack_obj_hdr(7, Len(delta)) \o base_sha1 \o ZStream(delta)

\* off < 128: the offset takes one byte
OfsDeltaEntry(off, delta) == write_pack_obj_hdr(6, Len(delta)) \o <<off>> \o ZStream(delta)

\* the offset 2^64 + off in ten bytes
OfsDeltaEntryWide(off, delta) ==
    write_pack_obj_hdr(6, Len(delta))
    \o <<128, 254, 254, 254, 254, 254, 254, 254, 255, off>> \o ZStream(delta)

\* the offset 128 + off in two bytes
OfsDeltaEntryTwo(off, delta) ==
    write_pack_obj_hdr(6, Len(delta)) \o <<128, off>> \o ZStream(delta)

MkPack(magic, ver, n, body) ==
    LET contents == magic \o BE32(ver) \o BE32(n) \o body
    IN  contents \o SHA1(contents)

\* the last byte replaced by another one
CorruptLast(s) == [s EXCEPT ![Len(s)] = (@ + 1) % 256]

Hi == <<104, 105, 10>>
\* copy 3 bytes from offset 0 of a 3-byte base, insert "h": a 4-byte target
DeltaHiH == <<3, 4, 144, 3, 1, 104>>
HiH == <<104, 105, 10, 104>>
\* the same instructions declaring a 2-byte base
DeltaBadBase == <<2, 4, 144, 3, 1, 104>>

\* the same instructions declaring a 5-byte target
DeltaBadTarget == <<3, 5, 144, 3, 1, 104>>

\* copy 3 bytes from offset 1 of the 3-byte base, insert "h"
DeltaOutOfBounds == <<3, 3, 145, 1, 3, 1, 104>>
\* a zero opcode between the copy and the insert
DeltaZeroOpcode == <<3, 4, 144, 3, 0, 1, 104>>
\* an insert of 5 bytes with 1 byte left
DeltaCutInsert == <<3, 4, 144, 3, 5, 104>>
\* a copy whose size byte is missing
DeltaCutCopy == <<3, 4, 1, 104, 145, 0>>

BaseEntry == WholeEntry(3, Hi)

P_blob == MkPack(PACK, 2, 1, WholeEntry(3, <<104>>))
P_two == MkPack(PACK, 2, 2, WholeEntry(3, <<104>>) \o WholeEntry(1, Hi))
P_ref == MkPack(PACK, 2, 2,
                BaseEntry \o RefDeltaEntry(SHA1(Canonical(STR_blob, Hi)), DeltaHiH))
P_ref_first == MkPack(PACK, 2, 2,
                RefDeltaEntry(SHA1(Canonical(STR_blob, Hi)), DeltaHiH) \o BaseEntry)
P_ref_zero == MkPack(PACK, 2, 2,
                BaseEntry \o RefDeltaEntry([k \in 1..SHA_DIGEST_LENGTH |-> 0], DeltaHiH))
P_ofs == MkPack(PACK, 2, 2, BaseEntry \o OfsDeltaEntry(Len(BaseEntry), DeltaHiH))
P_ofs_dangling == MkPack(PACK, 2, 3,
                BaseEntry \o OfsDeltaEntry(1, DeltaHiH) \o WholeEntry(3, <<104>>))
P_ofs_zero == MkPack(PACK, 2, 2, BaseEntry \o OfsDeltaEntry(0, DeltaHiH))
P_ofs_beyond == MkPack(PACK, 2, 2, BaseEntry \o OfsDeltaEntryTwo(0, DeltaHiH))
P_ofs_wrapped == MkPack(PACK, 2, 2, BaseEntry \o OfsDeltaEntryWide(Len(BaseEntry), DeltaHiH))
\* a blob of 200 bytes between the base and its delta: an offset of two bytes
P_ofs_two ==
    MkPack(PACK, 2, 3,
           BaseEntry \o WholeEntry(3, [k \in 1..200 |-> 104])
           \o OfsDeltaEntryTwo(Len(BaseEntry) + Len(WholeEntry(3, [k \in 1..200 |-> 104])) - 128,
                               DeltaHiH))
\* a tree, a delta on it and a delta on that delta
DeltaHiHH == <<4, 5, 144, 4, 1, 104>>
P_chain ==
    MkPack(PACK, 2, 3,
           WholeEntry(2, Hi) \o OfsDeltaEntry(Len(WholeEntry(2, Hi)), DeltaHiH)
           \o OfsDeltaEntry(Len(OfsDeltaEntry(Len(WholeEntry(2, Hi)), DeltaHiH)), DeltaHiHH))

P_bad_magic == MkPack(<<80, 65, 67, 88>>, 2, 1, WholeEntry(3, <<104>>))
P_version3 == MkPack(PACK, 3, 1, WholeEntry(3, <<104>>))
P_bad_trailer == CorruptLast(P_blob)
P_bad_type == MkPack(PACK, 2, 2, BaseEntry \o <<81>> \o ZStream(<<104>>))
P_bad_zlib == MkPack(PACK, 2, 2, BaseEntry \o <<49, 98, 108>>)
P_bad_delta == MkPack(PACK, 2, 2, BaseEntry \o OfsDeltaEntry(Len(BaseEntry), DeltaBadBase))
P_bad_target == MkPack(PACK, 2, 2, BaseEntry \o OfsDeltaEntry(Len(BaseEntry), DeltaBadTarget))
P_out_of_bounds == MkPack(PACK, 2, 2, BaseEntry \o OfsDeltaEntry(Len(BaseEntry), DeltaOutOfBounds))
P_zero_opcode == MkPack(PACK, 2, 2, BaseEntry \o OfsDeltaEntry(Len(BaseEntry), DeltaZeroOpcode))
P_cut_insert == MkPack(PACK, 2, 2, BaseEntry \o OfsDeltaEntry(Len(BaseEntry), DeltaCutInsert))
P_cut_copy == MkPack(PACK, 2, 2, BaseEntry \o OfsDeltaEntry(Len(BaseEntry), DeltaCutCopy))
\* a blob whose content is itself a deflated loose object
P_loose == MkPack(PACK, 2, 1, WholeEntry(3, ZStream(Canonical(STR_blob, <<104>>))))
\* two entries declared, the file ends after the first
P_truncated == PACK \o BE32(2) \o BE32(2) \o WholeEntry(3, <<104>>)

ReceivedPacks ==
    {P_blob, P_two, P_ref, P_ref_first, P_ref_zero, P_ofs, P_ofs_dangling,
     P_bad_magic, P_version3, P_bad_trailer, P_bad_type, P_bad_zlib, P_bad_delta,
     P_loose, P_truncated}

\* packs that exercise the delta format: offsets of one, two and ten bytes,
\* wrong sizes, bad opcodes, a chain of deltas
DeltaPacks ==
    {P_ref, P_ofs, P_ofs_zero, P_ofs_beyond, P_ofs_wrapped, P_ofs_two,
     P_bad_delta, P_bad_target, P_out_of_bounds, P_zero_opcode, P_cut_insert,
     P_cut_copy, P_chain}

\* the files unpack_packfile may be given: a received pack, or the buffer
\* the last create_packfile returned
PackFiles == ReceivedPacks \cup (IF pack_len > 0 THEN {pack_data} ELSE {})

\* ---- unpack_packfile(filename) in directory r ---------------------------
\* the locals of unpack_packfile (other than the heap bytes it has seen) are
\* gone when it returns
LocalsFreed ==
    /\ pack' = <<>>
    /\ count' = 0
    /\ version' = 0
    /\ i' = 0
    /\ p' = 0
    /\ objs' = <<>>

\* version as read from bytes 4..7, count from bytes 8..11 (lines 443-444)
BE32At(mem, q) ==
    ReadByte(mem, q) * 16777216 + ReadByte(mem, q + 1) * 65536
    + ReadByte(mem, q + 2) * 256 + ReadByte(mem, q + 3)

\* where unpack_packfile returns to: into git_pull (line 783) when that
\* called it, else to the idle program
ReturnTo(op) == IF op = "pull" THEN "pull_end" ELSE "idle"

\* lines 429-448: read the whole file into a buffer of packlen bytes, check
\* the magic, read version and count
unpack_read(r, file, op) ==
    \E hp \in (IF Len(file) < 12 THEN Heaps ELSE {<<>>}) :
       /\ heap' = hp
       /\ cwd' = r
       /\ store0' = objects[r]
       /\ IF SubSeq(file \o hp, 1, 4) # PACK
          THEN /\ ret' = 2
               /\ pc' = ReturnTo(op)
               /\ LocalsFreed
          ELSE /\ pack' = file
               /\ version' = BE32At(file \o hp, 4)
               /\ count' = BE32At(file \o hp, 8)
               /\ p' = 12
               /\ i' = 0
               /\ objs' = <<>>
               /\ ret' = -1
               /\ pc' = "unpack"

\* unpack_packfile(filename) called on its own
unpack_open ==
    /\ pc = "idle"
    /\ OpsDone < MaxOps
    /\ ops.unpack_packfile < MaxUnpacks
    /\ \E r \in Repos, file \in PackFiles : unpack_read(r, file, "unpack_packfile")
    /\ lastOp' = [op |-> "unpack_packfile", arg |-> <<>>, id |-> NoId]
    /\ ops' = [ops EXCEPT !.unpack_packfile = @ + 1]
    /\ UNCHANGED <<objects, pack_data, pack_len, packed, putLog>>
    /\ UNCHANGED netvars
    /\ UNCHANGED unitvars

\* the same call on one of the packs of the delta format
unpack_open_delta ==
    /\ pc = "idle"
    /\ OpsDone < MaxOps
    /\ ops.unpack_packfile < MaxUnpacks
    /\ \E r \in Repos, file \in DeltaPacks : unpack_read(r, file, "unpack_packfile")
    /\ lastOp' = [op |-> "unpack_packfile", arg |-> <<>>, id |-> NoId]
    /\ ops' = [ops EXCEPT !.unpack_packfile = @ + 1]
    /\ UNCHANGED <<objects, pack_data, pack_len, packed, putLog>>
    /\ UNCHANGED netvars
    /\ UNCHANGED unitvars

\* the heap contents an iteration may see: those seen before, any if the
\* entry's header runs past the end of the buffer for the first time
HeapChoices ==
    IF heap # <<>> THEN {heap}
    ELSE IF ParseEntryHeader(pack, p).pz > Len(pack) THEN Heaps
    ELSE {<<>>}

\* lines 450-559: one iteration of the loop
unpack_entry ==
    /\ pc = "unpack"
    /\ i < count
    /\ \E hp \in HeapChoices :
       LET e == DecodeEntry(pack \o hp, Len(pack), objs, p)
       IN  /\ heap' = hp
           /\ IF e.err # 0
              THEN /\ ret' = e.err
                   /\ pc' = ReturnTo(lastOp.op)
                   /\ LocalsFreed
                   /\ UNCHANGED objects
              ELSE \E sha1 \in UninitSha1 :
                   /\ objects' = [objects EXCEPT
                                     ![cwd] = write_git_object(@, e.data, sha1)]
                   /\ objs' = Append(objs, unpacked_obj(e.type, sha1, e.data, p))
                   /\ p' = e.next
                   /\ i' = i + 1
                   /\ UNCHANGED <<ret, pc, pack, count, version>>
    /\ UNCHANGED <<cwd, pack_data, pack_len, lastOp, ops, store0, packed, putLog>>
    /\ UNCHANGED netvars
    /\ UNCHANGED unitvars

\* lines 561-570: the loop is over, free everything and return 0
unpack_done ==
    /\ pc = "unpack"
    /\ i >= count
    /\ ret' = 0
    /\ pc' = ReturnTo(lastOp.op)
    /\ LocalsFreed
    /\ UNCHANGED <<objects, cwd, heap, pack_data, pack_len, lastOp, ops, store0,
                   packed, putLog>>
    /\ UNCHANGED netvars
    /\ UNCHANGED unitvars

\* ------------------------------------------------------------------------
\* Refs, commit-tree
\* ------------------------------------------------------------------------
LF == 10
STR_HEAD == <<72, 69, 65, 68>>
STR_ref == <<114, 101, 102, 58, 32>>
STR_refs_heads == <<114, 101, 102, 115, 47, 104, 101, 97, 100, 115, 47>>

\* fgets(buf, 256, f) of the file's first line: up to and including the
\* first newline, at most 255 characters
FGETS_BUF == 256
fgets(bytes) ==
    LET nl == memchr(bytes, LF)
        n == IF nl = 0 THEN Len(bytes) ELSE nl
    IN  SubSeq(bytes, 1, Min(n, FGETS_BUF - 1))

\* the string with its first newline (strchr) replaced by the terminator
ChopNewline(str) ==
    IF memchr(str, LF) = 0 THEN str ELSE SubSeq(str, 1, memchr(str, LF) - 1)

\* read_ref_head(out_commit): HEAD must be "ref: <ref>", the ref file's
\* first line without its newline, cut to 40 characters, is the commit
read_ref_head(files) ==
    IF STR_HEAD \notin DOMAIN files \/ files[STR_HEAD] = <<>>
    THEN [ok |-> FALSE, commit |-> <<>>]
    ELSE LET buf == fgets(files[STR_HEAD])
         IN  IF SubSeq(buf, 1, 5) # STR_ref THEN [ok |-> FALSE, commit |-> <<>>]
             ELSE LET ref == ChopNewline(SubSeq(buf, 6, Len(buf)))
                  IN  IF ref \notin DOMAIN files \/ files[ref] = <<>>
                      THEN [ok |-> FALSE, commit |-> <<>>]
                      ELSE [ok |-> TRUE,
                            commit |-> SubSeq(ChopNewline(fgets(files[ref])), 1,
                                              Min(40, Len(ChopNewline(fgets(files[ref])))))]

\* update_refs(commit_sha1, branch): the branch file gets the hex id and a
\* newline, HEAD gets "ref: refs/heads/<branch>" and a newline
update_refs(files, commit_sha1, branch) ==
    fwrite_wb(fwrite_wb(files, STR_refs_heads \o branch,
                        sha1_to_hex(commit_sha1) \o <<LF>>),
              STR_HEAD, STR_ref \o STR_refs_heads \o branch \o <<LF>>)

\* the command line of commit-tree and the directory it is run on: one
\* regular file
Branches == {<<109, 97, 105, 110>>}
Author == <<65>>
Message == <<109>>
FileName == <<102>>
\* time(NULL)
Clock == 7

\* snprintf(timebuf, "%ld +0000", now)
STR_tz == <<32, 43, 48, 48, 48, 48>>
timebuf == Decimal(Clock) \o STR_tz

\* create_tree_object for the single entry "%o %s" NUL sha1, mode 0100644
STR_mode == <<49, 48, 48, 54, 52, 52>>
TreeObject(blob_sha1) ==
    Canonical(STR_tree, STR_mode \o <<SP>> \o FileName \o <<NUL>> \o blob_sha1)

\* create_commit: the commit object for a tree and the text of its parent
\* line ("" when there is no parent)
STR_tree_sp == <<116, 114, 101, 101, 32>>
STR_parent == <<112, 97, 114, 101, 110, 116, 32>>
STR_author == <<97, 117, 116, 104, 111, 114, 32>>
STR_committer == <<99, 111, 109, 109, 105, 116, 116, 101, 114, 32>>
CommitObject(tree_sha1_hex, parent_line) ==
    Canonical(STR_commit,
        STR_tree_sp \o tree_sha1_hex \o <<LF>>
        \o parent_line
        \o STR_author \o Author \o <<SP>> \o timebuf \o <<LF>>
        \o STR_committer \o Author \o <<SP>> \o timebuf \o <<LF>>
        \o <<LF>>
        \o Message \o <<LF>>)

\* exit status of a process killed by abort() or a signal
KILLED == 134

MaxCommits == 2

\* git_commit_tree(rootdir, author, message, branch) in directory r, the
\* whole command.  With a parent, create_commit sprintf()s 49 bytes at
\* timebuf + 40, 25 of them past the 64-byte array (line 224): the process
\* either goes on as if the array were large enough or is killed there.
git_commit_tree(r) ==
    /\ pc = "idle"
    /\ OpsDone < MaxOps
    /\ ops.commit_tree < MaxCommits
    /\ \E filebuf \in FileContents, branch \in Branches :
       LET blob == BlobObject(filebuf)
           blob_sha1 == SHA1(blob)
           tree == TreeObject(blob_sha1)
           tree_sha1 == SHA1(tree)
           head == read_ref_head(refs[r])
           have_parent == head.ok /\ Len(head.commit) = 40
           commit == CommitObject(sha1_to_hex(tree_sha1),
                                  IF have_parent
                                  THEN STR_parent \o head.commit \o <<LF>>
                                  ELSE <<>>)
           commit_sha1 == SHA1(commit)
           trees == write_git_object(write_git_object(objects[r], blob, blob_sha1),
                                     tree, tree_sha1)
       IN  /\ putLog' = putLog \cup
                  {[repo |-> r, kind |-> STR_blob, content |-> filebuf, id |-> blob_sha1]}
           /\ \E survives \in (IF have_parent THEN BOOLEAN ELSE {TRUE}) :
              IF survives
              THEN /\ objects' = [objects EXCEPT
                                     ![r] = write_git_object(trees, commit, commit_sha1)]
                   /\ refs' = [refs EXCEPT ![r] = update_refs(@, commit_sha1, branch)]
                   /\ exit' = 0
              ELSE /\ objects' = [objects EXCEPT ![r] = trees]
                   /\ exit' = KILLED
                   /\ UNCHANGED refs
    /\ lastOp' = [op |-> "commit-tree", arg |-> <<>>, id |-> NoId]
    /\ cwd' = r
    /\ ops' = [ops EXCEPT !.commit_tree = @ + 1]
    /\ UNCHANGED <<pc, pack, heap, count, version, i, p, objs, ret,
                   pack_data, pack_len, store0, packed, resp, want, sent>>
    /\ UNCHANGED unitvars

\* ------------------------------------------------------------------------
\* HTTPS requests, pkt-lines
\* ------------------------------------------------------------------------
\* strstr(s + from - 1, pat): index of the first occurrence at or after
\* from, 0 when there is none
strstr(s, pat, from) ==
    LET hits == {k \in from..(Len(s) - Len(pat) + 1) :
                    SubSeq(s, k, k + Len(pat) - 1) = pat}
    IN  IF hits = {} THEN 0 ELSE Minimum(hits)

\* printf("%04x")
Hex4(n) ==
    <<HexChar((n \div 4096) % 16), HexChar((n \div 256) % 16),
      HexChar((n \div 16) % 16), HexChar(n % 16)>>

\* snprintf(buf, size, ...): at most size - 1 characters are kept
snprintf(size, str) == SubSeq(str, 1, Min(Len(str), size - 1))

\* what one tls_http_request can come to: the connection fails (-1 from
\* tcp_connect; tls_connect's -2 takes the same path in every caller),
\* tls_read returns nothing (0) or n > 0 bytes
Failures == {-1, 0}
\* the status line and the empty line that end the headers of a reply
STR_http_ok == <<72, 84, 84, 80, 47, 49, 46, 49, 32, 50, 48, 48, 32, 79, 75, 13, 10, 13, 10>>

\* how many bytes of the reply the one tls_read of line 604 may be handed:
\* all of it when it came as one record, the headers alone when the server
\* sent them as a record of their own
FirstReads(b) ==
    {Len(b)} \cup (IF Len(b) > Len(STR_http_ok)
                      /\ SubSeq(b, 1, Len(STR_http_ok)) = STR_http_ok
                   THEN {Len(STR_http_ok)} ELSE {})

\* full is what the server sent before it closed the connection
Outcomes(replies) ==
    {[n |-> f, bytes |-> <<>>, full |-> <<>>] : f \in Failures}
    \cup UNION {{[n |-> w, bytes |-> SubSeq(b, 1, w), full |-> b] :
                    w \in FirstReads(b)} : b \in replies}

\* the response buffer as a C string after tls_http_request returned: not
\* touched when the connection failed (lines 593-602), "" when nothing was
\* read, else the bytes read and a terminator (lines 604-606)
ResponseStr(before, out) ==
    IF out.n < 0 THEN before
    ELSE IF out.n = 0 THEN <<>>
    ELSE CStr(out.bytes)

\* the bytes tls_write is given: strlen(request) of them (line 603).  The
\* request line and headers hold no NUL, so the body is cut at its first.
BodyWritten(body) == CStr(body)

\* the remote's answers to GET info/refs ---------------------------------
RemoteId == sha1_to_hex([k \in 1..SHA_DIGEST_LENGTH |-> 171])
STR_service == <<48, 48, 49, 101, 35, 32, 115, 101, 114, 118, 105, 99, 101, 61, 103, 105, 116, 45, 117, 112, 108, 111, 97, 100, 45, 112, 97, 99, 107, 10, 48, 48, 48, 48>>
STR_flush == <<48, 48, 48, 48>>
STR_dev == <<100, 101, 118>>

PktLine(payload) == Hex4(Len(payload) + 4) \o payload

RefLine(id, name) == PktLine(id \o <<SP>> \o STR_refs_heads \o name \o <<LF>>)

\* the body alone, the body behind the HTTP header and the service
\* announcement, and a body that does not list the branch
Adv_body == RefLine(RemoteId, <<109, 97, 105, 110>>) \o STR_flush
Adv_http == STR_http_ok \o STR_service \o RefLine(RemoteId, <<109, 97, 105, 110>>) \o STR_flush
Adv_other == RefLine(RemoteId, STR_dev) \o STR_flush
\* only a branch whose name starts with the name asked for
STR_mainline == <<109, 97, 105, 110, 108, 105, 110, 101>>
Adv_longer == RefLine(RemoteId, STR_mainline) \o STR_flush
Advertisements == {Adv_body, Adv_http, Adv_other, Adv_longer}

\* what an uninitialised response buffer of git_push may hold as a string
STR_stale == <<115, 116, 97, 108, 101, 32, 115, 116, 97, 108, 101, 32, 115, 116, 97, 108, 101, 32, 115, 116, 97, 108, 101, 32, 115, 116, 97, 108, 101, 32, 115, 116, 97, 108, 101, 32, 115, 116, 97, 108, 101, 32, 115, 116, 97, 108, 101, 32, 109, 97, 105, 110>>
UninitResp == {<<>>, STR_stale}

\* one tls_http_request as the connection saw it: the Content-Length
\* header (-1 when there is none), the body the caller composed, the body
\* bytes written (none when the connection failed, lines 593-602), the
\* bytes read and the value returned
GET == "GET"
POST == "POST"
Request(method, service, length, payload, out) ==
    [method |-> method, service |-> service, length |-> length,
     payload |-> payload,
     body |-> IF out.n < 0 THEN <<>> ELSE BodyWritten(payload),
     reply |-> out.bytes, full |-> out.full, n |-> out.n]

\* ---- git_push(host, repo_path, branch) in directory r -------------------
MaxPushes == 1
STR_zero_id == [k \in 1..40 |-> 48]
UPDATE_LINE == 128
\* the tail of the format of line 665, from the \x00 on
STR_update_tail == <<0, 114, 101, 112, 111, 114, 116, 45, 115, 116, 97, 116, 117, 115, 32, 115, 105, 100, 101, 45, 98, 97, 110, 100, 45, 54, 52, 107, 32, 97, 103, 101, 110, 116, 61, 103, 105, 116, 47, 50, 46, 48, 10>>

\* lines 653-661: old_sha from the first occurrence of the branch name
old_sha(str, branch) ==
    LET line == strstr(str, branch, 1)
    IN  IF line # 0 /\ line - 1 > 40 THEN SubSeq(str, line - 41, line - 2)
        ELSE STR_zero_id

\* lines 664-669: the format string ends at its NUL
update_pkt_line(old, commit, branch) ==
    LET update_line == snprintf(UPDATE_LINE,
                           old \o <<SP>> \o commit \o <<SP>> \o STR_refs_heads
                           \o branch \o CStr(STR_update_tail))
    IN  Hex4(Len(update_line) + 4) \o update_line \o STR_flush

\* lines 633-643: the GET, its return value not looked at
git_push_get(r) ==
    /\ pc = "idle"
    /\ OpsDone < MaxOps
    /\ ops.push < MaxPushes
    /\ \E out \in Outcomes(Advertisements), junk \in UninitResp :
          /\ resp' = ResponseStr(junk, out)
          /\ sent' = <<Request(GET, "git-receive-pack", -1, <<>>, out)>>
    /\ pc' = "push_refs"
    /\ lastOp' = [op |-> "push", arg |-> <<>>, id |-> NoId]
    /\ cwd' = r
    /\ ops' = [ops EXCEPT !.push = @ + 1]
    /\ exit' = -1
    /\ UNCHANGED <<objects, pack, heap, count, version, i, p, objs, ret,
                   pack_data, pack_len, store0, packed, putLog, refs, want>>
    /\ UNCHANGED unitvars

\* variant of refs_after_push: the branch file rewritten whatever the POST
\* returned
refs_after_push_unacked(files, n, id, branch) ==
    fwrite_wb(files, STR_refs_heads \o branch, id \o <<LF>>)

\* the ref files when git_push returns: it has no call of update_refs and
\* opens no file for writing
refs_after_push(files, n, id, branch) == files

\* lines 645-673: no commit and return, or the pack of all objects
git_push_pack ==
    /\ pc = "push_refs"
    /\ IF ~read_ref_head(refs[cwd]).ok
       THEN /\ pc' = "push_end"
            /\ UNCHANGED <<pack_data, pack_len, packed>>
       ELSE /\ pc' = "push_packed"
            /\ \E bytes \in (IF DOMAIN objects[cwd] = {} THEN {<<>>}
                             ELSE {PackBytes(objects[cwd], q) :
                                      q \in PackOrders(objects[cwd])}) :
                /\ pack_data' = bytes
                /\ pack_len' = Len(bytes)
                /\ packed' = objects[cwd]
    /\ UNCHANGED <<objects, cwd, pack, heap, count, version, i, p, objs, ret,
                   lastOp, ops, store0, putLog, refs, resp, want, sent, exit>>
    /\ UNCHANGED unitvars

\* lines 653-669 and 675-702: the update line, the body, the POST
git_push_post ==
    /\ pc = "push_packed"
    /\ \E branch \in Branches, out \in Outcomes({<<111, 107>>}) :
       LET pkt_line == update_pkt_line(old_sha(resp, branch),
                                       read_ref_head(refs[cwd]).commit, branch)
           payload == pkt_line \o pack_data
       IN  /\ sent' = Append(sent, Request(POST, "git-receive-pack",
                                           Len(payload), payload, out))
           /\ refs' = [refs EXCEPT
                          ![cwd] = refs_after_push(@, out.n,
                                                   old_sha(resp, branch), branch)]
    /\ pc' = "push_end"
    /\ UNCHANGED <<objects, cwd, pack, heap, count, version, i, p, objs, ret,
                   pack_data, pack_len, lastOp, ops, store0, packed, putLog,
                   resp, want, exit>>
    /\ UNCHANGED unitvars

\* lines 704-707 and 798-799: git_push frees its buffers and returns, main
\* returns 0
git_push_return ==
    /\ pc = "push_end"
    /\ pc' = "idle"
    /\ exit' = 0
    /\ pack_data' = <<>>
    /\ pack_len' = -1
    /\ packed' = NoFiles
    /\ resp' = <<>>
    /\ sent' = <<>>
    /\ UNCHANGED <<objects, cwd, pack, heap, count, version, i, p, objs, ret,
                   lastOp, ops, store0, putLog, refs, want>>
    /\ UNCHANGED unitvars

\* ---- git_pull(host, repo_path, branch) in directory r -------------------
MaxPulls == 1

IsHexDigit(c) == c \in 48..57 \/ c \in 97..102

\* sscanf(p, "%40[0-9a-f]", out): the longest run of lower-case hex digits
\* at position q, at most 40 of them
ScanHex40(str, q) ==
    LET last == Min(q + 39, Len(str))
        bad == {k \in q..last : ~IsHexDigit(str[k])}
    IN  SubSeq(str, q, IF bad = {} THEN last ELSE Minimum(bad) - 1)

\* lines 620-621: back from position line to the start of its text line
LineStart(str, line) ==
    LET nls == {k \in 1..(line - 1) : str[k] = LF}
    IN  IF nls = {} THEN 1 ELSE Maximum(nls) + 1

\* find_branch_sha1_in_info_refs(info_refs, branch, out_sha1), searching
\* from position from on
RECURSIVE FindBranchFrom(_, _, _)
FindBranchFrom(info_refs, branch, from) ==
    LET line == strstr(info_refs, branch, from)
        q == LineStart(info_refs, line)
    IN  IF line = 0 THEN [found |-> FALSE, sha1 |-> <<>>]
        ELSE IF q + 40 <= line /\ ScanHex40(info_refs, q) # <<>>
             THEN [found |-> TRUE, sha1 |-> ScanHex40(info_refs, q)]
        ELSE FindBranchFrom(info_refs, branch, line + Len(branch))

find_branch_sha1_in_info_refs(info_refs, branch) ==
    FindBranchFrom(info_refs, branch, 1)

\* lines 735-740: "want <id>\n" as a pkt-line, and the flush packet
STR_want == <<119, 97, 110, 116, 32>>
WANT_LINE == 64
PKT_WANT == 128
pkt_want_nolen(want_sha1) ==
    LET want_line == snprintf(WANT_LINE, STR_want \o want_sha1 \o <<LF>>)
    IN  snprintf(PKT_WANT, Hex4(Len(want_line)) \o want_line \o STR_flush)

pkt_want(want_sha1) ==
    LET want_line == snprintf(WANT_LINE, STR_want \o want_sha1 \o <<LF>>)
    IN  snprintf(PKT_WANT, Hex4(Len(want_line) + 4) \o want_line \o STR_flush)

\* memmem(recv_buf, n, "PACK", 4): index of the first occurrence, 0 if none
memmem(bytes, pat) == strstr(bytes, pat, 1)

\* the remote's answers to POST git-upload-pack ---------------------------
STR_nak == <<48, 48, 48, 56, 78, 65, 75, 10>>
STR_note == <<110, 111, 116, 101>>
\* two loose objects as another git would deflate them: one of a kind this
\* program does not know, one whose header declares 5 bytes for 1
P_odd ==
    MkPack(PACK, 2, 2,
           WholeEntry(3, ZStream(Canonical(STR_note, <<104>>)))
           \o WholeEntry(3, ZStream(STR_blob \o <<SP, 53, NUL, 104>>)))
\* a pack whose first bytes are "PACK" twice
P_nested == MkPack(PACK, 2, 1, WholeEntry(3, PACK))

UploadPacks == {P_blob, P_loose, P_odd, P_nested, P_bad_type, P_bad_zlib,
                P_ofs_dangling, P_bad_delta}
UploadReplies ==
    {STR_nak} \cup {STR_http_ok \o STR_nak \o pk : pk \in UploadPacks}

\* lines 711-733: the GET and the search of the branch
git_pull_get(r) ==
    /\ pc = "idle"
    /\ OpsDone < MaxOps
    /\ ops.pull < MaxPulls
    /\ \E out \in Outcomes(Advertisements), branch \in Branches :
       LET str == ResponseStr(<<>>, out)
           ref == find_branch_sha1_in_info_refs(str, branch)
       IN  /\ sent' = <<Request(GET, "git-upload-pack", -1, <<>>, out)>>
           /\ IF out.n <= 0
              THEN pc' = "pull_end" /\ UNCHANGED <<resp, want>>
              ELSE /\ resp' = str
                   /\ IF ~ref.found
                      THEN pc' = "pull_end" /\ UNCHANGED want
                      ELSE pc' = "pull_want" /\ want' = ref.sha1
    /\ lastOp' = [op |-> "pull", arg |-> <<>>, id |-> NoId]
    /\ cwd' = r
    /\ ops' = [ops EXCEPT !.pull = @ + 1]
    /\ exit' = -1
    /\ UNCHANGED <<objects, pack, heap, count, version, i, p, objs, ret,
                   pack_data, pack_len, store0, packed, putLog, refs>>
    /\ UNCHANGED unitvars

\* lines 742-783: the POST, the search of "PACK", received.pack written and
\* handed to unpack_packfile
git_pull_post ==
    /\ pc = "pull_want"
    /\ \E out \in Outcomes(UploadReplies) :
       LET body == pkt_want(want)
           pack_start == memmem(out.bytes, PACK)
       IN  /\ sent' = Append(sent, Request(POST, "git-upload-pack",
                                           Len(body), body, out))
           /\ IF out.n <= 0 \/ pack_start = 0
              THEN /\ pc' = "pull_end"
                   /\ UNCHANGED <<cwd, pack, heap, count, version, i, p, objs,
                                  ret, store0>>
              ELSE unpack_read(cwd, SubSeq(out.bytes, pack_start, out.n), "pull")
    /\ UNCHANGED <<objects, pack_data, pack_len, lastOp, ops, packed, putLog,
                   refs, resp, want, exit>>
    /\ UNCHANGED unitvars

\* lines 783-786 and 802-803: the result of unpack_packfile is dropped,
\* git_pull returns nothing and main returns 0
git_pull_return ==
    /\ pc = "pull_end"
    /\ pc' = "idle"
    /\ exit' = 0
    /\ ret' = -1
    /\ heap' = <<>>
    /\ store0' = NoFiles
    /\ resp' = <<>>
    /\ want' = <<>>
    /\ sent' = <<>>
    /\ UNCHANGED <<objects, cwd, pack, count, version, i, p, objs,
                   pack_data, pack_len, lastOp, ops, packed, putLog, refs>>
    /\ UNCHANGED unitvars

\* ------------------------------------------------------------------------
\* The entry header for sizes of any width
\* ------------------------------------------------------------------------
\* lines 276-281: the loop of write_pack_obj_hdr
RECURSIVE SizeVarintWide(_)
SizeVarintWide(size) ==
    IF size = {} THEN <<>>
    ELSE <<LowValue(size, 7) + (IF ShiftRight(size, 7) # {} THEN 128 ELSE 0)>>
         \o SizeVarintWide(ShiftRight(size, 7))

\* write_pack_obj_hdr(buf, type, size) for a size given by its bits
write_pack_obj_hdr_wide(type, size) ==
    LET c == ((type * 16) % 256) + LowValue(size, 4)
    IN  <<c + (IF ShiftRight(size, 4) # {} /\ c < 128 THEN 128 ELSE 0)>>
        \o SizeVarintWide(ShiftRight(size, 4))

\* what (c & 0x7F) << shift, an int shifted by an int, may come to once it
\* is converted to size_t for the |=.  The C result is defined when
\* shift < 32 and the value fits in 31 bits; else the behaviour is undefined
\* and a build gives one of: the 32-bit shift of the machine, its count
\* taken modulo 32, sign-extended ("int32"); the same with counts of 32 and
\* more giving 0 ("int32_zero"); the shift done in 64 bits ("int64").
Builds == {"int32", "int32_zero", "int64"}

SignExtended(w) ==
    IF (INT_BITS - 1) \in w THEN w \cup (INT_BITS..(SIZE_T_BITS - 1)) ELSE w

ShiftedInt(g, shift, build) ==
    IF shift < INT_BITS /\ \A b \in BitsOf(g) : b + shift <= INT_BITS - 2
    THEN ShiftLeft(BitsOf(g), shift, SIZE_T_BITS)
    ELSE IF build = "int64" THEN ShiftLeft(BitsOf(g), shift, SIZE_T_BITS)
    ELSE IF build = "int32_zero" /\ shift >= INT_BITS THEN {}
    ELSE SignExtended(ShiftLeft(BitsOf(g), shift % INT_BITS, INT_BITS))

\* lines 458-462: the while (c & 0x80) loop, q the index of the next byte
RECURSIVE HeaderSizeWide(_, _, _, _, _, _)
HeaderSizeWide(mem, q, c, size, shift, build) ==
    IF c < 128 THEN [size |-> size, p |-> q]
    ELSE LET c2 == ReadByte(mem, q)
         IN  HeaderSizeWide(mem, q + 1, c2,
                            size \cup ShiftedInt(c2 % 128, shift, build),
                            shift + 7, build)

\* lines 453-462: type, size and the position after the header
ParseHeaderWide(mem, p0, build) ==
    LET c == ReadByte(mem, p0)
        hs == HeaderSizeWide(mem, p0 + 1, c, BitsOf(c % 16), 4, build)
    IN  [type |-> (c \div 16) % 8, size |-> hs.size, p |-> hs.p]

\* the sizes and types a header is written for
Since(b) == b..(SIZE_T_BITS - 1)
HeaderSizes ==
    {{}, {0}, 0..3, {4}, 0..4, {10}, {11}, {17}, {18}, 0..24, {25}, 0..27, {28},
     {0, 28}, {30}, 0..30, {31}, {5, 31}, 0..31, {32}, {4, 32}, {38}, {39}, {46},
     {53}, {59}, {60}, {63}, Since(0), Since(28)}
HeaderTypes == 1..4

NoHeader == [pc |-> "none", type |-> 0, size |-> {}, buf |-> <<>>, build |-> "",
             got |-> [type |-> 0, size |-> {}, p |-> 0]]

\* write_pack_obj_hdr(hdr, type, size)
header_write ==
    /\ hdr.pc = "input"
    /\ hdr' = [hdr EXCEPT !.pc = "written",
                          !.buf = write_pack_obj_hdr_wide(hdr.type, hdr.size)]
    /\ UNCHANGED <<objects, pc, cwd, pack, heap, count, version, i, p, objs, ret,
                   pack_data, pack_len, lastOp, ops, store0, packed, putLog,
                   netvars, scan>>

\* the header parse of unpack_packfile on those bytes
header_parse ==
    /\ hdr.pc = "written"
    /\ \E build \in Builds :
          hdr' = [hdr EXCEPT !.pc = "parsed",
                             !.build = build,
                             !.got = ParseHeaderWide(hdr.buf, 0, build)]
    /\ UNCHANGED <<objects, pc, cwd, pack, heap, count, version, i, p, objs, ret,
                   pack_data, pack_len, lastOp, ops, store0, packed, putLog,
                   netvars, scan>>

\* ------------------------------------------------------------------------
\* Step 1 of create_packfile, one readdir at a time.  A store is given by
\* the number of object files in each of its directories, in readdir order.
\* ------------------------------------------------------------------------
DirLists == {<<1024, 1>>, <<1023, 2>>, <<1025>>, <<1024>>, <<3, 2>>, <<1, 1, 1>>}

NoScan == [pc |-> "none", dirs |-> <<>>, d |-> 0, f |-> 0, sha1cnt |-> 0]

\* lines 337-341, 349-351: readdir(d) gives the next directory, or NULL
collect_outer ==
    /\ scan.pc = "outer"
    /\ IF scan.d < Len(scan.dirs)
       THEN scan' = [scan EXCEPT !.pc = "inner", !.d = @ + 1, !.f = 0]
       ELSE scan' = [scan EXCEPT !.pc = "done"]
    /\ UNCHANGED <<objects, pc, cwd, pack, heap, count, version, i, p, objs, ret,
                   pack_data, pack_len, lastOp, ops, store0, packed, putLog,
                   netvars, hdr>>

\* lines 343-348: readdir(sd) gives the next file, whose id goes to
\* sha1s[sha1cnt], or NULL; the break leaves this loop only
collect_inner ==
    /\ scan.pc = "inner"
    /\ IF scan.f < scan.dirs[scan.d]
       THEN scan' = [scan EXCEPT !.f = @ + 1,
                                 !.sha1cnt = @ + 1,
                                 !.pc = IF scan.sha1cnt + 1 > SHA1S_CAP - 1
                                        THEN "outer" ELSE "inner"]
       ELSE scan' = [scan EXCEPT !.pc = "outer"]
    /\ UNCHANGED <<objects, pc, cwd, pack, heap, count, version, i, p, objs, ret,
                   pack_data, pack_len, lastOp, ops, store0, packed, putLog,
                   netvars, hdr>>

\* ------------------------------------------------------------------------
\* Specification
\* ------------------------------------------------------------------------
\* the state before any command, the variables of the functions run on
\* their own apart
Idle ==
    /\ objects = [r \in Repos |-> NoFiles]
    /\ pc = "idle"
    /\ cwd = "a"
    /\ pack = <<>>
    /\ heap = <<>>
    /\ count = 0
    /\ version = 0
    /\ i = 0
    /\ p = 0
    /\ objs = <<>>
    /\ ret = -1
    /\ pack_data = <<>>
    /\ pack_len = -1
    /\ lastOp = [op |-> "none", arg |-> <<>>, id |-> NoId]
    /\ ops = [create_blob |-> 0, create_packfile |-> 0, unpack_packfile |-> 0,
              commit_tree |-> 0, push |-> 0, pull |-> 0]
    /\ store0 = NoFiles
    /\ packed = NoFiles
    /\ putLog = {}
    /\ refs = [r \in Repos |-> NoFiles]
    /\ resp = <<>>
    /\ want = <<>>
    /\ sent = <<>>
    /\ exit = -1

Init ==
    /\ Idle
    /\ hdr = NoHeader
    /\ scan = NoScan

Next ==
    \/ \E filebuf \in FileContents : create_blob(Origin, filebuf)
    \/ create_packfile(Origin)
    \/ unpack_open
    \/ unpack_entry
    \/ unpack_done

Spec == Init /\ [][Next]_vars

\* the three commands of main, run in the first directory
NextRemote ==
    \/ git_commit_tree(Origin)
    \/ git_push_get(Origin)
    \/ git_push_pack
    \/ git_push_post
    \/ git_push_return
    \/ git_pull_get(Origin)
    \/ git_pull_post
    \/ unpack_entry
    \/ unpack_done
    \/ git_pull_return

SpecRemote == Init /\ [][NextRemote]_vars

\* an entry header written by the encoder and parsed by the decoder
InitHeader ==
    /\ Idle
    /\ \E type \in HeaderTypes, size \in HeaderSizes :
          hdr = [NoHeader EXCEPT !.pc = "input", !.type = type, !.size = size]
    /\ scan = NoScan

NextRoundTrip ==
    \/ header_write
    \/ header_parse

SpecHeader == InitHeader /\ [][NextRoundTrip]_vars

\* the collection of ids over a store
\* unpack_packfile alone, on the packs of the delta format
NextDecode ==
    \/ unpack_open_delta
    \/ unpack_entry
    \/ unpack_done

SpecDecode == Init /\ [][NextDecode]_vars

InitCollect ==
    /\ Idle
    /\ hdr = NoHeader
    /\ \E dirs \in DirLists : scan = [NoScan EXCEPT !.pc = "outer", !.dirs = dirs]

NextCollect ==
    \/ collect_outer
    \/ collect_inner

SpecCollect == InitCollect /\ [][NextCollect]_vars

\* ------------------------------------------------------------------------
\* Properties
\* ------------------------------------------------------------------------
\* the last operation was unpack_packfile and it has returned
UnpackReturned == lastOp.op = "unpack_packfile" /\ pc = "idle"

\* this step is the return of unpack_packfile
UnpackReturns == pc = "unpack" /\ pc' = "idle"

\* the id an object of that kind and content has
ObjectId(kind, content) == SHA1(Canonical(kind, content))

\* C1: decoding the bytes create_packfile produced from a store S into an
\* empty store gives a store with exactly the files of S: the same ids, each
\* holding the same object.
C1_DecodeEncodeRestores ==
    [][(/\ UnpackReturns
        /\ pack_len > 0
        /\ pack = pack_data
        /\ store0 = NoFiles)
       => objects'[cwd] = packed]_vars

\* C2: every object written through create_blob is read back by
\* read_loose_object with the same kind and content, its file holding the
\* deflated canonical encoding.
C2_PutThenGet ==
    \A e \in putLog :
        LET path == ObjectPath(sha1_to_hex(e.id))
            got == read_loose_object(objects[e.repo], path)
        IN  /\ got.ok
            /\ got.type = e.kind
            /\ got.data = e.content
            /\ objects[e.repo][path] = ZStream(Canonical(e.kind, e.content))

\* C3: every object the decoder has written is recorded in the list under
\* the digest of its canonical encoding and stored in the file of that id.
C3_DecoderComputesId ==
    pc = "unpack" =>
        \A k \in 1..Len(objs) :
            /\ objs[k].sha1 = ObjectId(objs[k].type, objs[k].data)
            /\ ObjectPath(sha1_to_hex(ObjectId(objs[k].type, objs[k].data)))
                   \in DOMAIN objects[cwd]

\* C4: a create_blob that directly follows a create_blob of the same bytes
\* in the same directory returns the same id, succeeds (the file of that id
\* holds the object) and leaves the store as it was.
C4_PutIdempotent ==
    [][(/\ lastOp.op = "create_blob"
        /\ lastOp'.op = "create_blob"
        /\ ops'.create_blob = ops.create_blob + 1
        /\ lastOp'.arg = lastOp.arg
        /\ cwd' = cwd)
       => (/\ lastOp'.id = lastOp.id
           /\ objects'[cwd][ObjectPath(sha1_to_hex(lastOp'.id))] = BlobObject(lastOp'.arg)
           /\ objects' = objects)]_vars

\* create_blob has run twice in a row on the same bytes in one directory
C4_Witness ==
    /\ lastOp.op = "create_blob"
    /\ ops.create_blob = 2
    /\ OpsDone = 2
    /\ Cardinality(putLog) = 1

\* the file ends with 20 bytes that are not the digest of what precedes them
TrailerDiffers(file) ==
    /\ Len(file) >= 12 + SHA_DIGEST_LENGTH
    /\ SubSeq(file, Len(file) - SHA_DIGEST_LENGTH + 1, Len(file))
           # SHA1(SubSeq(file, 1, Len(file) - SHA_DIGEST_LENGTH))

\* C5: when the decoder has gone through all declared entries of a pack
\* whose trailing digest is wrong, it returns an error and the store is as
\* it was before the call.
C5_TrailerChecked ==
    [][(/\ UnpackReturns
        /\ pc = "unpack"
        /\ i >= count
        /\ TrailerDiffers(pack))
       => (ret' # 0 /\ objects'[cwd] = store0)]_vars

\* C6: when the decoder returns an error from inside its loop, the store is
\* as it was before the call.
C6_FailureLeavesStore ==
    (UnpackReturned /\ ret \in {3, 4, 5, 6}) => objects[cwd] = store0

\* C9: the decoder parses entries only of a file whose magic is "PACK" and
\* whose version is 2: any other file has been rejected before the loop.
C9_MagicAndVersion ==
    pc = "unpack" => (SubSeq(pack, 1, 4) = PACK /\ version = 2)

\* the header and the inflated payload of the entry the loop is about to
\* process, read with the heap bytes the step observes
NextHeader == ParseEntryHeader(pack \o heap', p)
NextPayload == InflateEntry(pack \o heap', Len(pack), NextHeader)

\* index in the list of the entry the next entry names as its base, 0 if none
NextBaseInList ==
    IF NextHeader.is_delta = 1 THEN find_obj_by_offset(objs, 1, NextHeader.base_offset)
    ELSE IF NextHeader.is_delta = 2 THEN find_obj_by_sha1(objs, 1, NextHeader.base_sha1)
    ELSE 0

NextBaseById ==
    {k \in 1..Len(objs) : ObjectId(objs[k].type, objs[k].data) = NextHeader.base_sha1}

\* C8: when a REF_DELTA entry names the id of an object an earlier whole
\* entry of the same pack holds, the lookup finds that entry, the loop goes
\* on and the object stored for the entry is the delta applied to that base.
C8_RefDeltaFindsBase ==
    [][(/\ pc = "unpack"
        /\ i < count
        /\ NextHeader.is_delta = 2
        /\ NextPayload.ret = Z_STREAM_END
        /\ \E k \in NextBaseById : apply_delta(objs[k].data, NextPayload.out).ok)
       => (/\ pc' = "unpack"
           /\ Len(objs') = Len(objs) + 1
           /\ \E k \in NextBaseById :
                 /\ objs'[Len(objs')].data = apply_delta(objs[k].data, NextPayload.out).data
                 /\ \E x \in DOMAIN objects'[cwd] :
                       objects'[cwd][x] = apply_delta(objs[k].data, NextPayload.out).data)
      ]_vars

\* the number of entries (type/size header, deflated payload) that make up
\* body from offset pos on, -1 when body is not a sequence of entries
RECURSIVE EntriesIn(_, _)
EntriesIn(body, pos) ==
    IF pos = Len(body) THEN 0
    ELSE IF pos > Len(body) THEN -1
    ELSE LET h == ParseEntryHeader(body, pos)
             zs == InflateEntry(body, Len(body), h)
             rest == EntriesIn(body, h.pz + zs.total_in)
         IN  IF h.is_delta # 0 \/ zs.ret # Z_STREAM_END \/ rest = -1 THEN -1
             ELSE 1 + rest

\* C10: what create_packfile returns is "PACK", version 2, the big-endian
\* number of the entries that follow, those entries, and the digest of all
\* the bytes before it.
C10_PackLayout ==
    pack_len > 0 =>
        LET n == Len(pack_data)
            body == SubSeq(pack_data, 13, n - SHA_DIGEST_LENGTH)
        IN  /\ pack_len = n
            /\ n >= 12 + SHA_DIGEST_LENGTH
            /\ SubSeq(pack_data, 1, 4) = PACK
            /\ SubSeq(pack_data, 5, 8) = <<0, 0, 0, 2>>
            /\ EntriesIn(body, 0) >= 0
            /\ SubSeq(pack_data, 9, 12) = BE32(EntriesIn(body, 0))
            /\ SubSeq(pack_data, n - SHA_DIGEST_LENGTH + 1, n)
                   = SHA1(SubSeq(pack_data, 1, n - SHA_DIGEST_LENGTH))

\* create_packfile returned a pack of one entry from a store of two files
C10_Witness ==
    /\ lastOp.op = "create_packfile"
    /\ pack_len > 0
    /\ SubSeq(pack_data, 9, 12) = <<0, 0, 0, 1>>
    /\ Cardinality(DOMAIN packed) = 2

\* C11: the pack create_packfile returns has one entry for every file of
\* the store it was made from: its count is the number of stored objects
\* and every stored object was read.
C11_EveryObjectPacked ==
    (lastOp.op = "create_packfile" /\ pack_len > 0) =>
        /\ BE32At(pack_data, 8) = Cardinality(DOMAIN packed)
        /\ \A path \in DOMAIN packed : read_loose_object(packed, path).ok

\* ------------------------------------------------------------------------
\* Properties of the encoder's entries, of push and of pull
\* ------------------------------------------------------------------------
\* the type fields of the entries that make up body from offset pos on
RECURSIVE EntryTypesIn(_, _)
EntryTypesIn(body, pos) ==
    IF pos >= Len(body) THEN {}
    ELSE LET h == ParseEntryHeader(body, pos)
             zs == InflateEntry(body, Len(body), h)
         IN  {h.type} \cup (IF zs.ret # Z_STREAM_END THEN {}
                            ELSE EntryTypesIn(body, h.pz + zs.total_in))

\* C12: every entry of the pack create_packfile returns has a type field
\* among 1 (commit), 2 (tree), 3 (blob), 4 (tag).
C12_OnlyWholeTypes ==
    pack_len > 0 =>
        EntryTypesIn(SubSeq(pack_data, 13, Len(pack_data) - SHA_DIGEST_LENGTH), 0)
            \subseteq {1, 2, 3, 4}

\* C13: when ref discovery has found the branch, the id it returned is the
\* one of the advertisement's pkt-line for refs/heads/<branch>: 4 hex
\* digits of length, that id, a space, the ref name and a newline.
C13_DiscoveredIdFollowsPrefix ==
    (lastOp.op = "pull" /\ pc = "pull_want") =>
        \E branch \in Branches :
            strstr(resp, RefLine(want, branch), 1) # 0

\* git_push has returned after its POST
PushPosted == lastOp.op = "push" /\ pc = "push_end" /\ Len(sent) = 2

\* the POST of the running or last command got as far as tls_write
PostWritten == Len(sent) = 2 /\ sent[2].n >= 0

\* C14: the body push composed starts with one pkt-line whose payload is
\* "<old-id> <new-id> refs/heads/<branch>", NUL, "report-status
\* side-band-64k agent=<agent>" and a newline, prefixed by that payload's
\* length plus 4, and the flush packet follows it.
C14_UpdateCommand ==
    PushPosted =>
        \E branch \in Branches :
            LET body == sent[2].payload
                update == SubSeq(body, 5, 44) \o <<SP>> \o SubSeq(body, 46, 85)
                          \o <<SP>> \o STR_refs_heads \o branch
                          \o STR_update_tail
            IN  /\ Len(body) >= Len(update) + 8
                /\ SubSeq(body, 1, Len(update) + 8) = PktLine(update) \o STR_flush

\* C15: the body push composed is one pkt-line, the flush packet and the
\* pack create_packfile returned, and the bytes written to the connection
\* are that body, as many as Content-Length says.
C15_PostBody ==
    (PushPosted /\ PostWritten) =>
        LET body == sent[2].payload
            cut == Len(body) - Len(pack_data)
        IN  /\ cut >= 8
            /\ SubSeq(body, cut + 1, Len(body)) = pack_data
            /\ SubSeq(body, cut - 3, cut) = STR_flush
            /\ SubSeq(body, 1, 4) = Hex4(cut - 4)
            /\ sent[2].body = body
            /\ sent[2].length = Len(sent[2].body)

RefNames(files, branch) == ChopNewline(fgets(files[STR_refs_heads \o branch]))

\* C17: a step of git_push that changes a ref file or HEAD comes after the
\* POST to git-receive-pack returned a response, and leaves every branch
\* file naming an object of the store.
C17_RefsAfterAck ==
    [][(lastOp'.op = "push" /\ refs' # refs) =>
          /\ Len(sent') = 2
          /\ sent'[2].method = POST
          /\ sent'[2].n > 0
          /\ \A branch \in Branches :
                (STR_refs_heads \o branch) \in DOMAIN refs'[cwd'] =>
                    ObjectPath(RefNames(refs'[cwd'], branch)) \in DOMAIN objects'[cwd']
      ]_vars

\* git_push has returned after a POST that failed, in a directory with refs
C17_Witness ==
    /\ PushPosted
    /\ sent[2].n <= 0
    /\ refs[cwd] # NoFiles

\* C18: after a ref-discovery GET that failed, git_push and git_pull send
\* nothing more.
C18_GetFailureAborts ==
    (lastOp.op \in {"push", "pull"} /\ Len(sent) >= 1 /\ sent[1].n <= 0) =>
        Len(sent) = 1

\* C19: when git_pull returns after its call of unpack_packfile failed,
\* main does not return 0.
C19_DecodeFailureReported ==
    [][(/\ pc = "pull_end"
        /\ pc' = "idle"
        /\ ret \notin {-1, 0})
       => exit' # 0]_vars

\* C20: read_loose_object fails on a file that is not there, and when it
\* succeeds the size written in the header is the length of the content it
\* returns.
C20_GetChecksHeader ==
    \A r \in Repos :
        /\ \A sha1 \in UninitSha1 :
              ObjectPath(sha1_to_hex(sha1)) \notin DOMAIN objects[r] =>
                  ~read_loose_object(objects[r], ObjectPath(sha1_to_hex(sha1))).ok
        /\ \A path \in DOMAIN objects[r] :
              LET got == read_loose_object(objects[r], path)
                  data == inflate(objects[r][path], INFLATE_BUF).out
                  sp == memchr(data, SP)
                  zp == memchr(data, NUL)
              IN  got.ok =>
                     /\ sp < zp
                     /\ SubSeq(data, sp + 1, zp - 1) = Decimal(Len(got.data))

\* ------------------------------------------------------------------------
\* Properties of delta application, of the entry header and of the offsets
\* ------------------------------------------------------------------------
\* the index in the list of the base an entry with header h names, 0 if none
BaseInList(h) ==
    IF h.is_delta = 1 THEN find_obj_by_offset(objs, 1, h.base_offset)
    ELSE IF h.is_delta = 2 THEN find_obj_by_sha1(objs, 1, h.base_sha1)
    ELSE 0

\* the step returns 6 from a delta and leaves the store as it was
Returns6 == ret' = 6 /\ pc' = "idle" /\ objects' = objects

\* C21: a delta whose first varint is not the length of its base, or whose
\* opcodes produce a number of bytes other than its second varint, makes
\* the call return 6 with nothing written for the entry; an entry that is
\* resolved has the length its delta declared.
C21_DeltaSizesChecked ==
    [][(pc = "unpack" /\ i < count) =>
        \A h \in {ParseEntryHeader(pack \o heap', p)} :
          h.is_delta \in {1, 2} =>
            \A zs \in {InflateEntry(pack \o heap', Len(pack), h)}, base \in {BaseInList(h)} :
              (zs.ret = Z_STREAM_END /\ base # 0) =>
                \A bs \in {get_varint(zs.out, 0, 0, 0)} :
                  \A ts \in {get_varint(zs.out, bs.pos, 0, 0)} :
                    \A produced \in {DeltaOpcodes(objs[base].data, zs.out, ts.pos, <<>>)} :
                      /\ (bs.ok /\ bs.val # Len(objs[base].data)) => Returns6
                      /\ (/\ bs.ok
                          /\ ts.ok
                          /\ produced.ok
                          /\ Len(produced.data) # ts.val) => Returns6
                      /\ pc' = "unpack" =>
                             /\ ts.ok
                             /\ objs'[Len(objs')].size = ts.val
                             /\ Len(objs'[Len(objs')].data) = ts.val
      ]_vars

\* the loop stands before a delta whose base is in the list with the
\* declared length and whose opcodes produce fewer bytes than it declares
C21_Witness ==
    /\ pc = "unpack"
    /\ i < count
    /\ heap = <<>>
    /\ LET h == ParseEntryHeader(pack, p)
           zs == InflateEntry(pack, Len(pack), h)
           base == find_obj_by_offset(objs, 1, h.base_offset)
           bs == get_varint(zs.out, 0, 0, 0)
           ts == get_varint(zs.out, bs.pos, 0, 0)
       IN  /\ h.is_delta = 1
           /\ zs.ret = Z_STREAM_END
           /\ base # 0
           /\ bs.val = Len(objs[base].data)
           /\ DeltaOpcodes(objs[base].data, zs.out, ts.pos, <<>>).ok
           /\ Len(DeltaOpcodes(objs[base].data, zs.out, ts.pos, <<>>).data) < ts.val

\* what is wrong with the instructions of delta d from offset pos on, for
\* that base: a zero opcode, a copy outside the base, or an opcode whose
\* bytes the delta does not hold
RECURSIVE DeltaFaults(_, _, _)
DeltaFaults(base, d, pos) ==
    IF pos >= Len(d) THEN {}
    ELSE LET cmd == d[pos + 1]
             off == ReadSelected(d, pos + 1, cmd, 0, 0, 4, 0)
             sz == ReadSelected(d, off.pos, cmd, 4, 0, 3, 0)
             size == IF sz.val = 0 THEN COPY_DEFAULT_SIZE ELSE sz.val
         IN  IF cmd = 0 THEN {"zero opcode"}
             ELSE IF cmd < 128
                  THEN IF pos + 1 + cmd > Len(d) THEN {"past the delta"}
                       ELSE DeltaFaults(base, d, pos + 1 + cmd)
             ELSE IF ~off.ok \/ ~sz.ok THEN {"past the delta"}
             ELSE IF off.val + size > Len(base) THEN {"outside the base"}
             ELSE DeltaFaults(base, d, sz.pos)

\* C22: a delta with a copy opcode whose range is not inside the base, with
\* a zero opcode, or with an opcode that wants bytes past the end of the
\* delta, makes the call return 6 with nothing written for the entry; an
\* entry is resolved only from a delta without any of these.
C22_DeltaStaysInside ==
    [][(pc = "unpack" /\ i < count) =>
        \A h \in {ParseEntryHeader(pack \o heap', p)} :
          h.is_delta \in {1, 2} =>
            \A zs \in {InflateEntry(pack \o heap', Len(pack), h)}, base \in {BaseInList(h)} :
              (zs.ret = Z_STREAM_END /\ base # 0) =>
                \A bs \in {get_varint(zs.out, 0, 0, 0)} :
                  \A ts \in {get_varint(zs.out, bs.pos, 0, 0)} :
                    (bs.ok /\ ts.ok) =>
                      \A faults \in {DeltaFaults(objs[base].data, zs.out, ts.pos)} :
                        /\ faults # {} => Returns6
                        /\ pc' = "unpack" => faults = {}
      ]_vars

\* the loop stands before a delta, its sizes right, whose copy runs past
\* the end of its base
C22_Witness ==
    /\ pc = "unpack"
    /\ i < count
    /\ heap = <<>>
    /\ LET h == ParseEntryHeader(pack, p)
           zs == InflateEntry(pack, Len(pack), h)
           base == find_obj_by_offset(objs, 1, h.base_offset)
           bs == get_varint(zs.out, 0, 0, 0)
           ts == get_varint(zs.out, bs.pos, 0, 0)
       IN  /\ h.is_delta = 1
           /\ zs.ret = Z_STREAM_END
           /\ base # 0
           /\ bs.val = Len(objs[base].data)
           /\ DeltaFaults(objs[base].data, zs.out, ts.pos) = {"outside the base"}

\* C23: the decoder's header parse of the bytes write_pack_obj_hdr wrote
\* for a type in 1..4 and a size returns that type and that size and stops
\* behind the last byte written.
C23_HeaderRoundTrip ==
    hdr.pc = "parsed" =>
        /\ hdr.got.type = hdr.type
        /\ hdr.got.size = hdr.size
        /\ hdr.got.p = Len(hdr.buf)

\* C28: sha1cnt, the number of ids written to the table, is never more than
\* the 1024 entries the table has.
C28_TableNotOverrun ==
    scan.sha1cnt <= SHA1S_CAP

\* the writer for wide sizes agrees with write_pack_obj_hdr
WideAgrees ==
    (hdr.pc = "written" /\ hdr.size \subseteq 0..30) =>
        hdr.buf = write_pack_obj_hdr(hdr.type, LowValue(hdr.size, 31))

\* the value the offset bytes of the next OFS_DELTA entry encode, as bits,
\* with room for every byte: first byte's low 7 bits, then for each further
\* byte ((value + 1) << 7) + low 7 bits
OFS_ROOM == 96
NextOfsValue ==
    LET q == HeaderSize(pack \o heap', p + 1, ReadByte(pack \o heap', p),
                        ReadByte(pack \o heap', p) % 16, 4).p
        c == ReadByte(pack \o heap', q)
    IN  OfsValue(pack \o heap', q + 1, c, BitsOf(c % 128), OFS_ROOM).off

NextOfsBeyond ==
    \/ ~(NextOfsValue \subseteq 0..(INT_BITS - 2))
    \/ LowValue(NextOfsValue, INT_BITS - 1) > p

\* C24: an OFS_DELTA entry whose offset bytes encode 0 or more than the
\* entry's own offset makes the call return 5 with nothing written; one
\* that is resolved took as base the entry that starts that many bytes
\* before it.
C24_OfsBaseExact ==
    [][(/\ pc = "unpack"
        /\ i < count
        /\ NextHeader.is_delta = 1
        /\ NextPayload.ret = Z_STREAM_END)
       => /\ (NextOfsValue = {} \/ NextOfsBeyond)
                => (ret' = 5 /\ pc' = "idle" /\ objects' = objects)
          /\ pc' = "unpack"
                => /\ ~NextOfsBeyond
                   /\ NextBaseInList # 0
                   /\ objs[NextBaseInList].pack_offset
                          = p - LowValue(NextOfsValue, INT_BITS - 1)
      ]_vars

\* C25: after a ref discovery that returned a response, the old id of the
\* update line is the id that response advertises in its pkt-line for
\* refs/heads/<branch>, and forty zeros when it has no such line.
C25_OldIdAdvertised ==
    (PushPosted /\ sent[1].n > 0) =>
        \A branch \in Branches :
            SubSeq(sent[2].payload, 5, 44)
                = IF strstr(sent[1].reply, RefLine(RemoteId, branch), 1) # 0
                  THEN RemoteId
                  ELSE STR_zero_id

\* C27: while entries remain to be decoded, the bytes of the next entry's
\* header (type and size bytes, offset varint or base digest) all lie inside
\* the pack: the position reached after them is not beyond the pack length
C27_ReadsInsidePack ==
    (pc = "unpack" /\ i < count) => ParseEntryHeader(pack, p).pz <= Len(pack)

\* C29: every element of the resolution table has the kind of the whole
\* entry at the root of its chain of bases (its own type field's name when it
\* is a whole entry), is keyed by the offset its entry starts at, and the
\* offsets increase strictly along the table
Entry(k) == ParseEntryHeader(pack \o heap, objs[k].pack_offset)

BaseOf(k) ==
    IF Entry(k).is_delta = 1
    THEN find_obj_by_offset(SubSeq(objs, 1, k - 1), 1, Entry(k).base_offset)
    ELSE find_obj_by_sha1(SubSeq(objs, 1, k - 1), 1, Entry(k).base_sha1)

RECURSIVE RootOf(_)
RootOf(k) ==
    IF k = 0 \/ Entry(k).is_delta = 0 THEN k ELSE RootOf(BaseOf(k))

EntryStart(k) ==
    IF k = 1 THEN 12
    ELSE DecodeEntry(pack \o heap, Len(pack), SubSeq(objs, 1, k - 2),
                     objs[k - 1].pack_offset).next

C29_KindOfRoot ==
    pc = "unpack" =>
        \A k \in 1..Len(objs) :
            /\ RootOf(k) # 0
            /\ objs[k].type = TypeName(Entry(RootOf(k)).type)
            /\ Entry(k).is_delta # 0 => objs[k].type = objs[BaseOf(k)].type
            /\ objs[k].pack_offset = EntryStart(k)
            /\ k > 1 => objs[k - 1].pack_offset < objs[k].pack_offset

\* the third entry of the table is a delta on a delta on a tree
C29_Witness ==
    /\ pc = "unpack"
    /\ Len(objs) = 3
    /\ Entry(3).is_delta = 1
    /\ Entry(BaseOf(3)).is_delta = 1
    /\ RootOf(3) = 1
    /\ objs[3].type = STR_tree

\* C30: every commit-tree operation leaves HEAD naming its branch and the
\* branch's ref file holding the id of a commit of the committed tree whose
\* only parent line names the commit HEAD resolved to before the operation,
\* and which has no parent line when HEAD did not resolve
CommitIds(head) ==
    {sha1_to_hex(commit_sha1) :
        commit_sha1 \in
            {SHA1(commit) :
                commit \in
                    {CommitObject(sha1_to_hex(tree_sha1),
                                  IF head.ok THEN STR_parent \o head.commit \o <<LF>>
                                  ELSE <<>>) :
                        tree_sha1 \in
                            {SHA1(tree) :
                                tree \in
                                    {TreeObject(blob_sha1) :
                                        blob_sha1 \in
                                            {SHA1(blob) :
                                                blob \in {BlobObject(filebuf) :
                                                             filebuf \in FileContents}}}}}}}

C30_RefsFollowCommit ==
    [][ops'.commit_tree # ops.commit_tree =>
          \E before \in {read_ref_head(refs[cwd'])},
             after \in {read_ref_head(refs'[cwd'])} :
             /\ STR_HEAD \in DOMAIN refs'[cwd']
             /\ \E branch \in Branches :
                   refs'[cwd'][STR_HEAD] = STR_ref \o STR_refs_heads \o branch \o <<LF>>
             /\ after.ok
             /\ after.commit \in CommitIds(before)]_vars

\* C26: a request that read something returned the whole of what the server
\* sent on the connection, not only what the first read delivered
C26_WholeResponse ==
    \A k \in 1..Len(sent) : sent[k].n > 0 => sent[k].reply = sent[k].full

====
